---- MODULE Spec2Model ----
(***************************************************************************)
(* A model of the validation and execution core of graphql-js:             *)
(*   - TypeInfo (utilities/TypeInfo): enter / leave and visitWithTypeInfo, *)
(*   - mapAsyncIterator (subscription/mapAsyncIterator),                   *)
(*   - ASTValidationContext / ValidationContext (validation).              *)
(* Each subsystem has its own specification over its own variables; the    *)
(* variables of the other subsystems stay at their initial value.          *)
(***************************************************************************)
EXTENDS Integers, Sequences, FiniteSets, TLC

(***************************************************************************)
(* Conventions.  A GraphQL type is a sequence of strings: its wrappers     *)
(* ("NonNull", "List") outermost first, then the name of the named type.   *)
(* The empty sequence stands for undefined / null.  An optional record is  *)
(* a sequence of length 0 or 1.                                            *)
(***************************************************************************)

Undefined == << >>

Last(s) == s[Len(s)]

Front(s) == SubSeq(s, 1, Len(s) - 1)

(* Array.prototype.pop: removes the last element, a no-op on [].           *)
Pop(s) == IF s = << >> THEN s ELSE Front(s)

(***************************************************************************)
(* The schema the walks run against.                                       *)
(*   type Query { a: String  pet(id: ID!, kind: Kind = DOG): Pet           *)
(*                us(in: Inp, ks: [Kind!]): [U!]!  q: Query }              *)
(*   type Mutation { set: Int }      (no subscription root)                *)
(*   interface Pet { name: String!  owner: Query }                         *)
(*   type Dog implements Pet { name: String!  owner: Query  bark: Boolean }*)
(*   union U = Dog                                                         *)
(*   enum Kind { CAT DOG }                                                 *)
(*   input Inp { f: Int = 1  l: [Inp!]  k: Kind! }                         *)
(*   directive @skip(if: Boolean!)   directive @include(if: Boolean!)      *)
(***************************************************************************)

TypeKind(name) ==
  CASE name \in {"Query", "Mutation", "Dog", "__Schema", "__Type"} -> "Object"
    [] name = "Pet" -> "Interface"
    [] name = "U" -> "Union"
    [] name \in {"String", "Int", "ID", "Boolean"} -> "Scalar"
    [] name = "Kind" -> "Enum"
    [] name = "Inp" -> "InputObject"
    [] OTHER -> "Unknown"

isWrapped(t) == t # Undefined /\ Head(t) \in {"NonNull", "List"}

isObjectType(t) == Len(t) = 1 /\ TypeKind(t[1]) = "Object"

isInterfaceType(t) == Len(t) = 1 /\ TypeKind(t[1]) = "Interface"

isEnumType(t) == Len(t) = 1 /\ TypeKind(t[1]) = "Enum"

isInputObjectType(t) == Len(t) = 1 /\ TypeKind(t[1]) = "InputObject"

isListType(t) == t # Undefined /\ Head(t) = "List"

isCompositeType(t) ==
  Len(t) = 1 /\ TypeKind(t[1]) \in {"Object", "Interface", "Union"}

isInputType(t) ==
  t # Undefined /\ TypeKind(Last(t)) \in {"Scalar", "Enum", "InputObject"}

isOutputType(t) ==
  t # Undefined
  /\ TypeKind(Last(t)) \in {"Scalar", "Object", "Interface", "Union", "Enum"}

getNullableType(t) ==
  IF t # Undefined /\ Head(t) = "NonNull" THEN Tail(t) ELSE t

getNamedType(t) == IF t = Undefined THEN Undefined ELSE << Last(t) >>

(* typeFromAST: the schema type a type reference names, undefined when the *)
(* named type is not in the schema.                                        *)
typeFromAST(typeNode) ==
  IF typeNode = Undefined \/ TypeKind(Last(typeNode)) = "Unknown"
  THEN Undefined
  ELSE typeNode

getQueryType == << "Query" >>

getMutationType == << "Mutation" >>

getSubscriptionType == Undefined

(* schema.getDirective(name): the directive, as << name >>, or undefined.  *)
getDirective(name) ==
  IF name \in {"skip", "include"} THEN << name >> ELSE Undefined

(* An argument or input field definition.                                  *)
Arg(n, t, d) == [name |-> n, type |-> t, defaultValue |-> d]

(* parentType.getFields()[name]: a field definition is the pair            *)
(* << parent type name, field name >>.                                     *)
getFields(parentType, name) ==
  LET p == parentType[1] IN
  CASE p = "Query" /\ name \in {"a", "pet", "us", "q"} -> << p, name >>
    [] p = "Mutation" /\ name = "set" -> << p, name >>
    [] p = "Pet" /\ name \in {"name", "owner"} -> << p, name >>
    [] p = "Dog" /\ name \in {"name", "owner", "bark"} -> << p, name >>
    [] OTHER -> Undefined

SchemaMetaFieldDef == << "__meta", "__schema" >>

TypeMetaFieldDef == << "__meta", "__type" >>

TypeNameMetaFieldDef == << "__meta", "__typename" >>

(* fieldDef.type                                                           *)
FieldType(fieldDef) ==
  CASE fieldDef = SchemaMetaFieldDef -> << "NonNull", "__Schema" >>
    [] fieldDef = TypeMetaFieldDef -> << "__Type" >>
    [] fieldDef = TypeNameMetaFieldDef -> << "NonNull", "String" >>
    [] fieldDef = << "Query", "a" >> -> << "String" >>
    [] fieldDef = << "Query", "pet" >> -> << "Pet" >>
    [] fieldDef = << "Query", "us" >> -> << "NonNull", "List", "NonNull", "U" >>
    [] fieldDef = << "Query", "q" >> -> << "Query" >>
    [] fieldDef = << "Mutation", "set" >> -> << "Int" >>
    [] fieldDef \in {<< "Pet", "name" >>, << "Dog", "name" >>}
         -> << "NonNull", "String" >>
    [] fieldDef \in {<< "Pet", "owner" >>, << "Dog", "owner" >>} -> << "Query" >>
    [] fieldDef = << "Dog", "bark" >> -> << "Boolean" >>
    [] OTHER -> Undefined

(* fieldDef.args and directive.args                                        *)
ArgsOf(fieldOrDirective) ==
  CASE fieldOrDirective = << "Query", "pet" >>
         -> << Arg("id", << "NonNull", "ID" >>, Undefined),
               Arg("kind", << "Kind" >>, << "DOG" >>) >>
    [] fieldOrDirective = << "Query", "us" >>
         -> << Arg("in", << "Inp" >>, Undefined),
               Arg("ks", << "List", "NonNull", "Kind" >>, Undefined) >>
    [] fieldOrDirective = TypeMetaFieldDef
         -> << Arg("name", << "NonNull", "String" >>, Undefined) >>
    [] fieldOrDirective \in {<< "skip" >>, << "include" >>}
         -> << Arg("if", << "NonNull", "Boolean" >>, Undefined) >>
    [] OTHER -> << >>

(* objectType.getFields()[name] of an input object type.                   *)
InputFieldsOf(objectType, name) ==
  CASE objectType = << "Inp" >> /\ name = "f"
         -> << Arg("f", << "Int" >>, << "1" >>) >>
    [] objectType = << "Inp" >> /\ name = "l"
         -> << Arg("l", << "List", "NonNull", "Inp" >>, Undefined) >>
    [] objectType = << "Inp" >> /\ name = "k"
         -> << Arg("k", << "NonNull", "Kind" >>, Undefined) >>
    [] OTHER -> << >>

(* enumType.getValue(name)                                                 *)
getValue(enumType, name) ==
  IF enumType = << "Kind" >> /\ name \in {"CAT", "DOG"}
  THEN << "Kind", name >>
  ELSE Undefined

(* args.find(arg => arg.name === name): the first match, as an optional.   *)
FindArg(args, name) ==
  LET hits == {i \in 1..Len(args) : args[i].name = name} IN
  IF hits = {} THEN << >>
  ELSE << args[CHOOSE i \in hits : \A j \in hits : i <= j] >>

(***************************************************************************)
(* The document the walks run over, as a table of AST nodes.  children     *)
(* lists a node's child nodes in the visitor's order.                      *)
(*                                                                         *)
(*   query ($v: Inp = {f: 1}, $w: Query) @skip(if: $c) {                   *)
(*     pet(id: $v, kind: CAT) { name ... on Dog { bark } ... { __typename }*)
(*                              ...F }                                     *)
(*     us(in: {f: $x, l: [{k: DOG}]}, ks: [CAT, $k]) @nope(in: 1)          *)
(*       { __schema }                                                      *)
(*   }                                                                     *)
(*   fragment F on Pet { owner { __type(name: $n) } }                      *)
(* Nodes 54 to 56 (a subscription, a mutation, a fragment on an unknown    *)
(* type) are further nodes a walk may be started at or meet.               *)
(***************************************************************************)

N(k, nm, ty, ch) == [kind |-> k, name |-> nm, type |-> ty, children |-> ch]

Doc ==
  << N("Document", "", Undefined, << 2, 44 >>),                      \* 1
     N("OperationDefinition", "query", Undefined, << 3, 8, 10, 13 >>), \* 2
     N("VariableDefinition", "", << "Inp" >>, << 4, 5, 6 >>),         \* 3
     N("Variable", "v", Undefined, << >>),                           \* 4
     N("NamedType", "Inp", Undefined, << >>),                        \* 5
     N("ObjectValue", "", Undefined, << 7 >>),                       \* 6
     N("ObjectField", "f", Undefined, << >>),                        \* 7
     N("VariableDefinition", "", << "Query" >>, << 9 >>),             \* 8
     N("Variable", "w", Undefined, << >>),                           \* 9
     N("Directive", "skip", Undefined, << 11 >>),                    \* 10
     N("Argument", "if", Undefined, << 12 >>),                       \* 11
     N("Variable", "c", Undefined, << >>),                           \* 12
     N("SelectionSet", "", Undefined, << 14, 30 >>),                 \* 13
     N("Field", "pet", Undefined, << 15, 17, 19 >>),                 \* 14
     N("Argument", "id", Undefined, << 16 >>),                       \* 15
     N("Variable", "v", Undefined, << >>),                           \* 16
     N("Argument", "kind", Undefined, << 18 >>),                     \* 17
     N("EnumValue", "CAT", Undefined, << >>),                        \* 18
     N("SelectionSet", "", Undefined, << 20, 21, 25, 29 >>),         \* 19
     N("Field", "name", Undefined, << 28 >>),                        \* 20
     N("InlineFragment", "", << "Dog" >>, << 22, 23 >>),              \* 21
     N("NamedType", "Dog", Undefined, << >>),                        \* 22
     N("SelectionSet", "", Undefined, << 24 >>),                     \* 23
     N("Field", "bark", Undefined, << >>),                           \* 24
     N("InlineFragment", "", Undefined, << 26 >>),                   \* 25
     N("SelectionSet", "", Undefined, << 27 >>),                     \* 26
     N("Field", "__typename", Undefined, << >>),                     \* 27
     N("Name", "name", Undefined, << >>),                            \* 28
     N("FragmentSpread", "F", Undefined, << >>),                     \* 29
     N("Field", "us", Undefined, << 31, 39, 42, 50 >>),              \* 30
     N("Argument", "in", Undefined, << 32 >>),                       \* 31
     N("ObjectValue", "", Undefined, << 33, 35 >>),                  \* 32
     N("ObjectField", "f", Undefined, << 34 >>),                     \* 33
     N("Variable", "x", Undefined, << >>),                           \* 34
     N("ObjectField", "l", Undefined, << 36 >>),                     \* 35
     N("ListValue", "", Undefined, << 37 >>),                        \* 36
     N("ObjectValue", "", Undefined, << 38 >>),                      \* 37
     N("ObjectField", "k", Undefined, << 43 >>),                     \* 38
     N("Argument", "ks", Undefined, << 40 >>),                       \* 39
     N("ListValue", "", Undefined, << 18, 41 >>),                    \* 40
     N("Variable", "k", Undefined, << >>),                           \* 41
     N("Directive", "nope", Undefined, << 57 >>),                    \* 42
     N("EnumValue", "DOG", Undefined, << >>),                        \* 43
     N("FragmentDefinition", "F", << "Pet" >>, << 45, 46 >>),         \* 44
     N("NamedType", "Pet", Undefined, << >>),                        \* 45
     N("SelectionSet", "", Undefined, << 47 >>),                     \* 46
     N("Field", "owner", Undefined, << 48 >>),                       \* 47
     N("SelectionSet", "", Undefined, << 49 >>),                     \* 48
     N("Field", "__type", Undefined, << 52 >>),                      \* 49
     N("SelectionSet", "", Undefined, << 51 >>),                     \* 50
     N("Field", "__schema", Undefined, << >>),                       \* 51
     N("Argument", "name", Undefined, << 53 >>),                     \* 52
     N("Variable", "n", Undefined, << >>),                           \* 53
     N("OperationDefinition", "subscription", Undefined, << 50 >>),  \* 54
     N("OperationDefinition", "mutation", Undefined, << >>),         \* 55
     N("FragmentDefinition", "G", << "Nope" >>, << >>),              \* 56
     N("Argument", "in", Undefined, << >>) >>                        \* 57

NodeIds == 1..Len(Doc)

(***************************************************************************)
(* TypeInfo: five stacks and three slots.                                  *)
(***************************************************************************)

(* new TypeInfo(schema, undefined, initialType)                            *)
NewTypeInfo(initialType) ==
  [typeStack |-> IF isOutputType(initialType) THEN << initialType >> ELSE << >>,
   parentTypeStack |->
     IF isCompositeType(initialType) THEN << initialType >> ELSE << >>,
   inputTypeStack |->
     IF isInputType(initialType) THEN << initialType >> ELSE << >>,
   fieldDefStack |-> << >>,
   defaultValueStack |-> << >>,
   directive |-> Undefined,
   argument |-> << >>,
   enumValue |-> Undefined]

(* The top-of-stack accessors: undefined on an empty stack.                *)
Top(stack) == IF Len(stack) > 0 THEN stack[Len(stack)] ELSE Undefined

getType(ti) == Top(ti.typeStack)

getParentType(ti) == Top(ti.parentTypeStack)

getInputType(ti) == Top(ti.inputTypeStack)

getFieldDef(ti) == Top(ti.fieldDefStack)

getDefaultValue(ti) == Top(ti.defaultValueStack)

(* getFieldDef without the test for the query root.                        *)
getFieldDefFnAnyParent(parentType, name) ==
  IF name = "__schema" THEN SchemaMetaFieldDef
  ELSE IF name = "__type" THEN TypeMetaFieldDef
  ELSE IF name = "__typename" /\ isCompositeType(parentType)
    THEN TypeNameMetaFieldDef
  ELSE IF isObjectType(parentType) \/ isInterfaceType(parentType)
    THEN getFields(parentType, name)
  ELSE Undefined

(* The module-level getFieldDef(schema, parentType, fieldNode).            *)
getFieldDefFn(parentType, name) ==
  IF name = "__schema" /\ getQueryType = parentType THEN SchemaMetaFieldDef
  ELSE IF name = "__type" /\ getQueryType = parentType THEN TypeMetaFieldDef
  ELSE IF name = "__typename" /\ isCompositeType(parentType)
    THEN TypeNameMetaFieldDef
  ELSE IF isObjectType(parentType) \/ isInterfaceType(parentType)
    THEN getFields(parentType, name)
  ELSE Undefined

enterSelectionSet(ti) ==
  LET namedType == getNamedType(getType(ti)) IN
  [ti EXCEPT !.parentTypeStack =
     Append(@, IF isCompositeType(namedType) THEN namedType ELSE Undefined)]

enterField(ti, node) ==
  LET parentType == getParentType(ti)
      fieldDef == IF parentType # Undefined
                  THEN getFieldDefFn(parentType, node.name)
                  ELSE Undefined
      fieldType == IF fieldDef # Undefined THEN FieldType(fieldDef)
                   ELSE Undefined
  IN [ti EXCEPT !.fieldDefStack = Append(@, fieldDef),
                !.typeStack = Append(@, IF isOutputType(fieldType)
                                        THEN fieldType ELSE Undefined)]

enterOperationDefinition(ti, node) ==
  LET type == CASE node.name = "query" -> getQueryType
                [] node.name = "mutation" -> getMutationType
                [] node.name = "subscription" -> getSubscriptionType
                [] OTHER -> Undefined
  IN [ti EXCEPT !.typeStack =
        Append(@, IF isObjectType(type) THEN type ELSE Undefined)]

(* enter of a fragment that takes its type from the type condition only.   *)
enterFragmentConditionOnly(ti, node) ==
  LET outputType == typeFromAST(node.type)
  IN [ti EXCEPT !.typeStack =
        Append(@, IF isOutputType(outputType) THEN outputType ELSE Undefined)]

enterFragment(ti, node) ==
  LET outputType == IF node.type # Undefined
                    THEN typeFromAST(node.type)
                    ELSE getNamedType(getType(ti))
  IN [ti EXCEPT !.typeStack =
        Append(@, IF isOutputType(outputType) THEN outputType ELSE Undefined)]

enterVariableDefinition(ti, node) ==
  LET inputType == typeFromAST(node.type) IN
  [ti EXCEPT !.inputTypeStack =
     Append(@, IF isInputType(inputType) THEN inputType ELSE Undefined)]

enterArgument(ti, node) ==
  LET fieldOrDirective ==
        IF ti.directive # Undefined THEN ti.directive ELSE getFieldDef(ti)
      argDef == IF fieldOrDirective # Undefined
                THEN FindArg(ArgsOf(fieldOrDirective), node.name)
                ELSE << >>
      argType == IF argDef # << >> THEN argDef[1].type ELSE Undefined
  IN [ti EXCEPT !.argument = argDef,
                !.defaultValueStack =
                  Append(@, IF argDef # << >> THEN argDef[1].defaultValue
                            ELSE Undefined),
                !.inputTypeStack =
                  Append(@, IF isInputType(argType) THEN argType ELSE Undefined)]

(* enter(ListValue) that does not take the non-null wrapper off.           *)
enterListKeepNonNull(ti) ==
  LET listType == getInputType(ti)
      itemType == IF isListType(listType) THEN Tail(listType) ELSE listType
  IN [ti EXCEPT !.defaultValueStack = Append(@, Undefined),
                !.inputTypeStack =
                  Append(@, IF isInputType(itemType) THEN itemType ELSE Undefined)]

enterList(ti) ==
  LET listType == getNullableType(getInputType(ti))
      itemType == IF isListType(listType) THEN Tail(listType) ELSE listType
  IN [ti EXCEPT !.defaultValueStack = Append(@, Undefined),
                !.inputTypeStack =
                  Append(@, IF isInputType(itemType) THEN itemType ELSE Undefined)]

enterObjectField(ti, node) ==
  LET objectType == getNamedType(getInputType(ti))
      inputField == IF isInputObjectType(objectType)
                    THEN InputFieldsOf(objectType, node.name)
                    ELSE << >>
      inputFieldType == IF inputField # << >> THEN inputField[1].type
                        ELSE Undefined
  IN [ti EXCEPT !.defaultValueStack =
                  Append(@, IF inputField # << >>
                            THEN inputField[1].defaultValue ELSE Undefined),
                !.inputTypeStack =
                  Append(@, IF isInputType(inputFieldType)
                            THEN inputFieldType ELSE Undefined)]

enterEnum(ti, node) ==
  LET enumType == getNamedType(getInputType(ti)) IN
  [ti EXCEPT !.enumValue = IF isEnumType(enumType)
                           THEN getValue(enumType, node.name)
                           ELSE Undefined]

(* TypeInfo.enter(node)                                                    *)
enter(ti, node) ==
  CASE node.kind = "SelectionSet" -> enterSelectionSet(ti)
    [] node.kind = "Field" -> enterField(ti, node)
    [] node.kind = "Directive" ->
         [ti EXCEPT !.directive = getDirective(node.name)]
    [] node.kind = "OperationDefinition" -> enterOperationDefinition(ti, node)
    [] node.kind \in {"InlineFragment", "FragmentDefinition"} ->
         enterFragment(ti, node)
    [] node.kind = "VariableDefinition" -> enterVariableDefinition(ti, node)
    [] node.kind = "Argument" -> enterArgument(ti, node)
    [] node.kind = "ListValue" -> enterList(ti)
    [] node.kind = "ObjectField" -> enterObjectField(ti, node)
    [] node.kind = "EnumValue" -> enterEnum(ti, node)
    [] OTHER -> ti

(* leave as a slip would have it: a Field pops its field definition but    *)
(* not its type, an Argument its input type but not its default value.     *)
leaveUnpaired(ti, node) ==
  CASE node.kind = "SelectionSet" ->
         [ti EXCEPT !.parentTypeStack = Pop(@)]
    [] node.kind = "Field" -> [ti EXCEPT !.fieldDefStack = Pop(@)]
    [] node.kind = "Directive" -> [ti EXCEPT !.directive = Undefined]
    [] node.kind \in {"OperationDefinition", "InlineFragment",
                      "FragmentDefinition"} ->
         [ti EXCEPT !.typeStack = Pop(@)]
    [] node.kind = "VariableDefinition" ->
         [ti EXCEPT !.inputTypeStack = Pop(@)]
    [] node.kind = "Argument" ->
         [ti EXCEPT !.argument = << >>, !.inputTypeStack = Pop(@)]
    [] node.kind \in {"ListValue", "ObjectField"} ->
         [ti EXCEPT !.defaultValueStack = Pop(@), !.inputTypeStack = Pop(@)]
    [] node.kind = "EnumValue" -> [ti EXCEPT !.enumValue = Undefined]
    [] OTHER -> ti

(* leave that pops the stacks but leaves the three slots as they are.      *)
leaveKeepingSlots(ti, node) ==
  CASE node.kind = "SelectionSet" ->
         [ti EXCEPT !.parentTypeStack = Pop(@)]
    [] node.kind = "Field" ->
         [ti EXCEPT !.fieldDefStack = Pop(@), !.typeStack = Pop(@)]
    [] node.kind \in {"OperationDefinition", "InlineFragment",
                      "FragmentDefinition"} ->
         [ti EXCEPT !.typeStack = Pop(@)]
    [] node.kind = "VariableDefinition" ->
         [ti EXCEPT !.inputTypeStack = Pop(@)]
    [] node.kind \in {"Argument", "ListValue", "ObjectField"} ->
         [ti EXCEPT !.defaultValueStack = Pop(@), !.inputTypeStack = Pop(@)]
    [] OTHER -> ti

(* TypeInfo.leave(node)                                                    *)
leave(ti, node) ==
  CASE node.kind = "SelectionSet" ->
         [ti EXCEPT !.parentTypeStack = Pop(@)]
    [] node.kind = "Field" ->
         [ti EXCEPT !.fieldDefStack = Pop(@), !.typeStack = Pop(@)]
    [] node.kind = "Directive" -> [ti EXCEPT !.directive = Undefined]
    [] node.kind \in {"OperationDefinition", "InlineFragment",
                      "FragmentDefinition"} ->
         [ti EXCEPT !.typeStack = Pop(@)]
    [] node.kind = "VariableDefinition" ->
         [ti EXCEPT !.inputTypeStack = Pop(@)]
    [] node.kind = "Argument" ->
         [ti EXCEPT !.argument = << >>,
                    !.defaultValueStack = Pop(@),
                    !.inputTypeStack = Pop(@)]
    [] node.kind \in {"ListValue", "ObjectField"} ->
         [ti EXCEPT !.defaultValueStack = Pop(@), !.inputTypeStack = Pop(@)]
    [] node.kind = "EnumValue" -> [ti EXCEPT !.enumValue = Undefined]
    [] OTHER -> ti

(* The five stacks of a TypeInfo.                                          *)
Stacks(ti) ==
  << ti.typeStack, ti.parentTypeStack, ti.inputTypeStack, ti.fieldDefStack,
     ti.defaultValueStack >>

(***************************************************************************)
(* State.                                                                  *)
(***************************************************************************)

VARIABLES
  typeInfo,   \* the TypeInfo instance: its five stacks and three slots
  open,       \* free driver: the entered, not yet left nodes, innermost last
  left,       \* free driver: the frame of the node the last step left
  pc,         \* visit: "start", "walking", "done" ("idle": no walk)
  visitor,    \* visit: the user visitor handed to visitWithTypeInfo
  walk,       \* visit: the visitor's stack of nodes being visited
  last,       \* visit: the last call of the wrapping visitor
  ended,      \* visit: the stacks recorded before the node whose walk ended
  edits,      \* visit: the number of nodes the user visitor has replaced
  usages,     \* getVariableUsages: newUsages
  iterator,   \* mapAsyncIterator: the source iterator
  rejectCallback, \* mapAsyncIterator: whether a rejectCallback was given
  ops,        \* mapAsyncIterator: the calls made on the mapped iterator
  settled,    \* mapAsyncIterator: the call that settled last, as it settled
  context,    \* the validation context: the document and its caches
  served,     \* whether the last call on the context walked nothing
  errors,     \* the errors the rules reported through onError, in order
  position,   \* how many nodes the walk of a rule has entered
  input,      \* the value or literal handed to a scalar's functions
  returned,   \* the calls made on a library function, with their outcomes
  cache0,     \* memoize3: the cache of the memoized function
  invoked,    \* memoize3: the argument triples fn was invoked with
  exeContext, \* execute: the execution context, with its error buffer
  execution,  \* execute: the root fields' promises and the results mapping
  response,   \* execute: the ExecutionResult, once there is one
  frames      \* the context: the calls in progress, with their loops' locals

tiVars == << typeInfo, open, left >>

visitVars == << pc, visitor, walk, last, ended, edits, usages >>

mapVars == << iterator, rejectCallback, ops, settled >>

ctxVars == << context, served, errors, position >>

libVars == << input, returned, cache0, invoked >>

execVars == << exeContext, execution, response >>

loopVars == << frames >>

vars == << typeInfo, open, left, pc, visitor, walk, last, ended, edits,
           usages, iterator, rejectCallback, ops, settled, context,
           served, errors, position, input, returned, cache0,
           invoked, exeContext, execution, response, frames >>

(***************************************************************************)
(* Bounds.                                                                 *)
(***************************************************************************)

(* The free driver nests at most MaxDepth nodes.                           *)
MaxDepth == 3

(* A walk replaces at most MaxEdits nodes.                                 *)
MaxEdits == 2

(* The initial types a TypeInfo is constructed with (none, an object type, *)
(* an input object type, a wrapped scalar).                                *)
InitialTypes ==
  {Undefined, << "Query" >>, << "Inp" >>, << "NonNull", "String" >>}

(* The nodes the free driver enters: one or more of every kind enter and   *)
(* leave distinguish, and kinds they ignore.                               *)
DriverNodes == {2, 3, 4, 10, 11, 13, 14, 17, 18, 21, 33, 36, 44}

(***************************************************************************)
(* The free driver: any properly nested sequence of enter and leave on one *)
(* TypeInfo.  A frame keeps the stacks as they were before enter(node).    *)
(***************************************************************************)

IdleVisit ==
  /\ pc = "idle"
  /\ visitor = [mode |-> "none", enter |-> {}, leave |-> {}]
  /\ walk = << >>
  /\ last = << >>
  /\ ended = << >>
  /\ edits = 0
  /\ usages = << >>

(* No mapped iterator is in use.                                           *)
IdleMap ==
  /\ iterator = [values |-> 0, fails |-> FALSE, hasReturn |-> FALSE,
                 hasThrow |-> FALSE, returnRejects |-> FALSE, pos |-> 0,
                 closed |-> FALSE, returnCalls |-> 0, thrown |-> << >>,
                 nexts |-> << >>]
  /\ rejectCallback = FALSE
  /\ ops = << >>
  /\ settled = << >>

(* How often each analysis of a context has been computed: the fragment   *)
(* index, and per key node the four others.                                *)
NoWalks ==
  [fragments |-> 0,
   fragmentSpreads |-> [node \in {} |-> 0],
   recursivelyReferencedFragments |-> [operation \in {} |-> 0],
   variableUsages |-> [node \in {} |-> 0],
   recursiveVariableUsages |-> [operation \in {} |-> 0]]

(* new ASTValidationContext(ast, onError): the fragment index is not yet   *)
(* built (no element) and the two maps are empty.                          *)
NewContext(ast) ==
  [ast |-> ast,
   fragments |-> << >>,
   fragmentSpreads |-> [node \in {} |-> << >>],
   recursivelyReferencedFragments |-> [operation \in {} |-> << >>],
   walks |-> NoWalks]

(* new ValidationContext(schema, ast, typeInfo, onError): the context of   *)
(* the super class and two more empty maps.                                *)
NewValidationContext(ast) ==
  [ast |-> ast,
   fragments |-> << >>,
   fragmentSpreads |-> [node \in {} |-> << >>],
   recursivelyReferencedFragments |-> [operation \in {} |-> << >>],
   variableUsages |-> [node \in {} |-> << >>],
   recursiveVariableUsages |-> [operation \in {} |-> << >>],
   walks |-> NoWalks]

(* No scalar function and no memoized function has been called.            *)
IdleLib ==
  /\ input = << >>
  /\ returned = << >>
  /\ cache0 = << >>
  /\ invoked = << >>

(* No call on the context is in progress.                                 *)
IdleLoops == frames = << >>

(* execute has not been called.                                            *)
IdleExec ==
  /\ exeContext = << >>
  /\ execution = << >>
  /\ response = << >>

IdleCtx ==
  /\ context = NewContext([kind |-> "Document", definitions |-> << >>])
  /\ served = FALSE
  /\ errors = << >>
  /\ position = 0

InitTypeInfo ==
  /\ \E t \in InitialTypes : typeInfo = NewTypeInfo(t)
  /\ open = << >>
  /\ left = << >>
  /\ IdleVisit
  /\ IdleMap
  /\ IdleLib
  /\ IdleLoops
  /\ IdleExec
  /\ IdleCtx

EnterNode(n) ==
  /\ Len(open) < MaxDepth
  /\ typeInfo' = enter(typeInfo, Doc[n])
  /\ open' = Append(open, [node |-> n, snap |-> Stacks(typeInfo)])
  /\ left' = << >>
  /\ UNCHANGED << visitVars, mapVars, ctxVars, libVars, execVars, loopVars >>

LeaveNode ==
  /\ open # << >>
  /\ typeInfo' = leave(typeInfo, Doc[Last(open).node])
  /\ open' = Front(open)
  /\ left' = << Last(open) >>
  /\ UNCHANGED << visitVars, mapVars, ctxVars, libVars, execVars, loopVars >>

NextTypeInfo ==
  \/ \E n \in DriverNodes : EnterNode(n)
  \/ LeaveNode

SpecTypeInfo == InitTypeInfo /\ [][NextTypeInfo]_vars

(* The default specification: the free TypeInfo driver.                    *)
Spec == SpecTypeInfo

(***************************************************************************)
(* visitWithTypeInfo, and the walk of visit() that drives it.              *)
(*                                                                         *)
(* What a visitor function returns: undefined (go on), false (skip the     *)
(* subtree), null (delete the node), BREAK (stop the walk) or a node (the  *)
(* replacement, which the walk continues into).                            *)
(***************************************************************************)

Res(tag, node) == [tag |-> tag, node |-> node]

ResUndefined == Res("undefined", 0)

(* The nodes a user visitor hands back as replacements: a field and a      *)
(* variable definition.                                                    *)
Replacements == {20, 8}

EnterResults ==
  {ResUndefined, Res("false", 0), Res("null", 0), Res("break", 0)}
    \cup {Res("node", r) : r \in Replacements}

LeaveResults == {ResUndefined, Res("null", 0), Res("break", 0)}

(* isNode(result)                                                          *)
isNode(result) == result.tag = "node"

AllKinds == {Doc[n].kind : n \in NodeIds}

(* The user visitors: the kinds they have an enter and a leave function    *)
(* for.  The visitor of getVariableUsages has the two enter functions      *)
(* VariableDefinition and Variable.                                        *)
UsagesVisitor ==
  [mode |-> "usages", enter |-> {"VariableDefinition", "Variable"},
   leave |-> {}]

FreeVisitors ==
  {[mode |-> "free", enter |-> AllKinds, leave |-> AllKinds],
   [mode |-> "free", enter |-> {"Field", "Argument", "VariableDefinition"},
    leave |-> {"SelectionSet", "Directive"}],
   [mode |-> "free", enter |-> {}, leave |-> {}]}

(* getVisitFn(visitor, kind, isLeaving): whether there is a function.      *)
getVisitFn(v, kind, isLeaving) ==
  IF isLeaving THEN kind \in v.leave ELSE kind \in v.enter

(* One call made by the wrapping visitor: the function, the node, and the  *)
(* TypeInfo the callee finds.                                              *)
Call(fn, node, ti) == [fn |-> fn, node |-> node, seen |-> ti]

(* The wrapper's enter with the compensating leave left out.               *)
visitWithTypeInfoEnterNoLeave(ti, node, hasFn, result) ==
  LET t1 == enter(ti, Doc[node])
      c1 == << Call("typeInfo.enter", node, ti) >>
      c2 == Append(c1, Call("visitor.enter", node, t1))
  IN
  IF ~hasFn THEN [typeInfo |-> t1, calls |-> c1, result |-> ResUndefined]
  ELSE [typeInfo |-> t1, calls |-> c2, result |-> result]

(* The wrapper's enter calling the user's function before typeInfo.enter.  *)
visitWithTypeInfoEnterUserFirst(ti, node, hasFn, result) ==
  LET t1 == enter(ti, Doc[node])
      c1 == << Call("typeInfo.enter", node, ti) >>
      c2 == << Call("visitor.enter", node, ti),
               Call("typeInfo.enter", node, ti) >>
      t2 == leave(t1, Doc[node])
      c3 == Append(c2, Call("typeInfo.leave", node, t1))
  IN
  IF ~hasFn THEN [typeInfo |-> t1, calls |-> c1, result |-> ResUndefined]
  ELSE IF result.tag = "undefined"
    THEN [typeInfo |-> t1, calls |-> c2, result |-> result]
  ELSE IF ~isNode(result)
    THEN [typeInfo |-> t2, calls |-> c3, result |-> result]
  ELSE [typeInfo |-> enter(t2, Doc[result.node]),
        calls |-> Append(c3, Call("typeInfo.enter", result.node, t2)),
        result |-> result]

(* visitWithTypeInfo(typeInfo, visitor).enter(node), the user's function   *)
(* returning result: the TypeInfo afterwards, the calls made in order, and *)
(* what the wrapper returns.                                               *)
visitWithTypeInfoEnter(ti, node, hasFn, result) ==
  LET t1 == enter(ti, Doc[node])
      c1 == << Call("typeInfo.enter", node, ti) >>
      c2 == Append(c1, Call("visitor.enter", node, t1))
      t2 == leave(t1, Doc[node])
      c3 == Append(c2, Call("typeInfo.leave", node, t1))
  IN
  IF ~hasFn THEN [typeInfo |-> t1, calls |-> c1, result |-> ResUndefined]
  ELSE IF result.tag = "undefined"
    THEN [typeInfo |-> t1, calls |-> c2, result |-> result]
  ELSE IF ~isNode(result)
    THEN [typeInfo |-> t2, calls |-> c3, result |-> result]
  ELSE [typeInfo |-> enter(t2, Doc[result.node]),
        calls |-> Append(c3, Call("typeInfo.enter", result.node, t2)),
        result |-> result]

(* visitWithTypeInfo(typeInfo, visitor).leave(node)                        *)
visitWithTypeInfoLeave(ti, node, hasFn, result) ==
  LET c1 == IF hasFn THEN << Call("visitor.leave", node, ti) >> ELSE << >>
  IN [typeInfo |-> leave(ti, Doc[node]),
      calls |-> Append(c1, Call("typeInfo.leave", node, ti)),
      result |-> IF hasFn THEN result ELSE ResUndefined]

(* The visitor of getVariableUsages without its VariableDefinition         *)
(* function's false: the walk goes on into the definition.                 *)
UserEnterResultsNoSkip(v, node) ==
  IF v.mode = "usages"
  THEN {ResUndefined}
  ELSE {r \in EnterResults : isNode(r) => edits < MaxEdits}

(* What the user's enter function may return for a node.  The visitor of   *)
(* getVariableUsages returns false for a VariableDefinition, and nothing   *)
(* for a Variable.                                                         *)
UserEnterResults(v, node) ==
  IF v.mode = "usages"
  THEN IF Doc[node].kind = "VariableDefinition" THEN {Res("false", 0)}
       ELSE {ResUndefined}
  ELSE {r \in EnterResults : isNode(r) => edits < MaxEdits}

(* The nodes a walk starts at: the document, the operation, the fragment   *)
(* definition.                                                             *)
Roots == {1, 2, 44}

(* The types a walk's TypeInfo is constructed with.                        *)
WalkInitialTypes == {Undefined, << "Query" >>}

InitVisit ==
  /\ \E t \in WalkInitialTypes : typeInfo = NewTypeInfo(t)
  /\ open = << >>
  /\ left = << >>
  /\ pc = "start"
  /\ visitor \in FreeVisitors \cup {UsagesVisitor}
  /\ \E r \in Roots : walk = << [node |-> r, orig |-> r, next |-> 0, snap |-> << >>] >>
  /\ last = << >>
  /\ ended = << >>
  /\ edits = 0
  /\ usages = << >>
  /\ IdleMap
  /\ IdleLib
  /\ IdleLoops
  /\ IdleExec
  /\ IdleCtx

(* The node the walk enters next: the root, or the next child of the node  *)
(* on top of the stack.                                                    *)
AtRoot == pc = "start"

Children(frame) == Doc[frame.node].children

NextNode ==
  IF AtRoot THEN walk[1].node
  ELSE Children(Last(walk))[Last(walk).next]

Advance(w) ==
  IF w = << >> THEN w
  ELSE [w EXCEPT ![Len(w)].next = @ + 1]

(* The record of one call of the wrapping visitor: the handler, the node   *)
(* it was called with (orig: the node the walk had reached there), the     *)
(* stacks before the call, the calls the wrapper made and its result.      *)
LastCall(handler, node, orig, hasFn, r, before) ==
  << [handler |-> handler, node |-> node, orig |-> orig, hasFn |-> hasFn,
      result |-> r.result, calls |-> r.calls, before |-> before] >>

(* visit(): the walk reaches a node and calls the wrapper's enter.  On     *)
(* BREAK the walk stops; on false, null or another non-node the node is    *)
(* passed over; otherwise the walk descends into the node, or into the     *)
(* node returned in its place.                                             *)
VisitEnter ==
  /\ pc \in {"start", "walking"}
  /\ AtRoot \/ Last(walk).next <= Len(Children(Last(walk)))
  /\ LET node == NextNode
         outer == IF AtRoot THEN << >> ELSE walk
         hasFn == getVisitFn(visitor, Doc[node].kind, FALSE)
     IN \E res \in UserEnterResults(visitor, node) :
       LET r == visitWithTypeInfoEnter(typeInfo, node, hasFn, res)
           into == IF isNode(r.result) THEN r.result.node ELSE node
       IN
       /\ typeInfo' = r.typeInfo
       /\ last' = LastCall("enter", node, node, hasFn, r, Stacks(typeInfo))
       /\ usages' =
            IF visitor.mode = "usages" /\ Doc[node].kind = "Variable"
            THEN Append(usages,
                        [node |-> node,
                         type |-> getInputType(r.calls[2].seen),
                         defaultValue |-> getDefaultValue(r.calls[2].seen)])
            ELSE usages
       /\ edits' = IF isNode(r.result) THEN edits + 1 ELSE edits
       /\ IF r.result.tag = "break"
          THEN /\ pc' = "done"
               /\ walk' = outer
               /\ ended' = << Stacks(typeInfo) >>
          ELSE IF r.result.tag \in {"false", "null"}
          THEN /\ walk' = Advance(outer)
               /\ pc' = IF outer = << >> THEN "done" ELSE "walking"
               /\ ended' = << Stacks(typeInfo) >>
          ELSE /\ walk' = Append(Advance(outer),
                                 [node |-> into, orig |-> node, next |-> 1,
                                  snap |-> Stacks(typeInfo)])
               /\ pc' = "walking"
               /\ ended' = << >>
  /\ UNCHANGED << open, left, visitor, mapVars, ctxVars, libVars, execVars, loopVars >>

(* visit(): the children of the node on top of the stack are done; the     *)
(* walk calls the wrapper's leave and goes back to the parent.             *)
VisitLeave ==
  /\ pc = "walking"
  /\ Last(walk).next > Len(Children(Last(walk)))
  /\ LET node == Last(walk).node
         hasFn == getVisitFn(visitor, Doc[node].kind, TRUE)
     IN \E res \in (IF visitor.mode = "usages" THEN {ResUndefined}
                    ELSE LeaveResults) :
       LET r == visitWithTypeInfoLeave(typeInfo, node, hasFn, res) IN
       /\ typeInfo' = r.typeInfo
       /\ last' = LastCall("leave", node, Last(walk).orig, hasFn, r,
                           Stacks(typeInfo))
       /\ walk' = Front(walk)
       /\ ended' = << Last(walk).snap >>
       /\ pc' = IF r.result.tag = "break" \/ Len(walk) = 1
                THEN "done" ELSE "walking"
  /\ UNCHANGED << open, left, visitor, edits, usages, mapVars,
               ctxVars, libVars, execVars, loopVars >>

NextVisit == VisitEnter \/ VisitLeave

SpecVisit == InitVisit /\ [][NextVisit]_vars

(***************************************************************************)
(* C1.  enter(n), then any properly nested sequence of enter / leave       *)
(* pairs, then leave(n) leaves each of the five stacks with the length and *)
(* contents it had before enter(n): whenever the driver has just left a    *)
(* node, the stacks equal those recorded before that node was entered.     *)
(***************************************************************************)
C1_EnterLeaveSymmetric ==
  left # << >> => Stacks(typeInfo) = left[1].snap

(* A Field was entered with stacks that were not empty, nodes were entered *)
(* and left inside it, and it has been left while an outer node is open.   *)
C1_Witness ==
  /\ left # << >>
  /\ Doc[left[1].node].kind = "Field"
  /\ open # << >>
  /\ typeInfo.typeStack # << >>
  /\ typeInfo.parentTypeStack # << >>

(***************************************************************************)
(* What a node's kind pushes: one entry on each stack named here.          *)
(***************************************************************************)
Pushes(kind) ==
  << IF kind \in {"Field", "OperationDefinition", "InlineFragment",
                  "FragmentDefinition"} THEN 1 ELSE 0,
     IF kind = "SelectionSet" THEN 1 ELSE 0,
     IF kind \in {"VariableDefinition", "Argument", "ListValue",
                  "ObjectField"} THEN 1 ELSE 0,
     IF kind = "Field" THEN 1 ELSE 0,
     IF kind \in {"Argument", "ListValue", "ObjectField"} THEN 1 ELSE 0 >>

(* The TypeInfo a user function finds holds, on top of the stacks `outer`  *)
(* of the enclosing nodes, the entries of the node itself, and the slot of *)
(* a Directive or EnumValue node is set from that node.                    *)
IncludesOwnContext(seen, outer, node, entering) ==
  /\ \A i \in 1..5 :
       /\ Len(Stacks(seen)[i]) = Len(outer[i]) + Pushes(Doc[node].kind)[i]
       /\ SubSeq(Stacks(seen)[i], 1, Len(outer[i])) = outer[i]
  /\ entering /\ Doc[node].kind = "Directive"
       => seen.directive = getDirective(Doc[node].name)

CallNames(calls) == [i \in 1..Len(calls) |-> << calls[i].fn, calls[i].node >>]

(***************************************************************************)
(* C2.  The wrapping visitor calls typeInfo.enter(node) first and the      *)
(* user's enter function after it, and calls the user's leave function     *)
(* before typeInfo.leave(node), which comes last; without a user function  *)
(* for the kind typeInfo.enter / typeInfo.leave is the one call made.  The *)
(* TypeInfo either user function finds includes the node's own entries.    *)
(***************************************************************************)
C2_TypeInfoAroundUser ==
  last # << >> =>
    LET l == last[1]
        names == CallNames(l.calls)
    IN
    /\ l.handler = "enter" =>
         /\ names[1] = << "typeInfo.enter", l.node >>
         /\ ~l.hasFn => Len(names) = 1
         /\ l.hasFn =>
              /\ Len(names) >= 2
              /\ names[2] = << "visitor.enter", l.node >>
              /\ IncludesOwnContext(l.calls[2].seen, l.before, l.node, TRUE)
    /\ l.handler = "leave" =>
         /\ Last(names) = << "typeInfo.leave", l.node >>
         /\ ~l.hasFn => Len(names) = 1
         /\ l.hasFn =>
              /\ Len(names) = 2
              /\ names[1] = << "visitor.leave", l.node >>
              /\ IncludesOwnContext(l.calls[1].seen, Stacks(typeInfo), l.node,
                                    FALSE)

(* The user's leave function of an Argument inside a Field has been        *)
(* called, and the enter function of a node of a kind it has none for was  *)
(* passed over.                                                            *)
C2_Witness ==
  /\ last # << >>
  /\ last[1].handler = "leave"
  /\ last[1].hasFn
  /\ Doc[last[1].node].kind = "Argument"
  /\ typeInfo.fieldDefStack # << >>

C2_WitnessNoFn ==
  /\ last # << >>
  /\ last[1].handler = "enter"
  /\ ~last[1].hasFn
  /\ Doc[last[1].node].kind = "Field"

(***************************************************************************)
(* C3.  Whatever the user's enter function returns, enter and leave stay   *)
(* balanced: on false or null the wrapper calls leave(node) at once, on a  *)
(* replacement leave(node) and then enter(replacement), on undefined       *)
(* neither; and when the walk of a node is over (passed over, or left) the *)
(* five stacks are as they were before the walk reached it.                *)
(***************************************************************************)
C3_EditsKeepBalance ==
  /\ ended # << >> => Stacks(typeInfo) = ended[1]
  /\ last # << >> /\ last[1].handler = "enter" /\ last[1].hasFn =>
       LET l == last[1]
           names == CallNames(l.calls)
           own == << << "typeInfo.enter", l.node >>,
                     << "visitor.enter", l.node >> >>
       IN
       /\ l.result.tag = "undefined" => names = own
       /\ l.result.tag \in {"false", "null"} =>
            names = Append(own, << "typeInfo.leave", l.node >>)
       /\ l.result.tag = "node" =>
            names = own \o << << "typeInfo.leave", l.node >>,
                              << "typeInfo.enter", l.result.node >> >>

(* A node was replaced by one of another kind, the walk went through the   *)
(* replacement and has left it, inside opened nodes.                       *)
C3_Witness ==
  /\ last # << >>
  /\ last[1].handler = "leave"
  /\ last[1].orig # last[1].node
  /\ Doc[last[1].orig].kind # Doc[last[1].node].kind
  /\ Pushes(Doc[last[1].orig].kind) # Pushes(Doc[last[1].node].kind)
  /\ ended # << >>
  /\ typeInfo.typeStack # << >>

(* The visitor of getVariableUsages has passed over a VariableDefinition.  *)
C3_WitnessSkip ==
  /\ visitor.mode = "usages"
  /\ last # << >>
  /\ last[1].handler = "enter"
  /\ last[1].result.tag = "false"
  /\ ended # << >>

(***************************************************************************)
(* mapAsyncIterator(iterable, callback, rejectCallback).                   *)
(*                                                                         *)
(* The source iterator yields the values 1 .. values in the order next()   *)
(* is called, then (fails) rejects once, then is done; return() and        *)
(* throw() close it.  An outcome is what a promise settles to: a value, a  *)
(* done result or a rejection with an error.  Every call on the mapped     *)
(* iterator is an entry of ops, which moves through the stages             *)
(*   "source"   the source's promise has not been handled yet,             *)
(*   "callback" the promise of asyncMapValue is awaited,                   *)
(*   "closing"  abruptClose awaits the source's return(),                  *)
(*   "settled"  the promise handed to the caller has settled.              *)
(* A call that settles is recorded in full in `settled`; its entry in ops  *)
(* keeps what later calls are judged by: its kind, whether callback        *)
(* failed for it, and the closes it made.                                  *)
(***************************************************************************)

(* At most MaxOps calls are made on the mapped iterator.                   *)
MaxOps == 3

(* The source yields MaxValues values.                                     *)
MaxValues == 2

(* At most MaxPending calls on the mapped iterator are unsettled at once.  *)
MaxPending == 2

Out(tag, v) == [tag |-> tag, v |-> v]

NoOutcome == Out("none", 0)

DoneResult == Out("done", 0)

(* callback(value): not the identity.                                      *)
Callback(v) == v + 10

(* The error callback fails with for a value.                              *)
CallbackError(v) == v + 100

(* rejectCallback(error)                                                   *)
RejectCallback(e) == e + 1000

(* The errors of the source's next() and return(), the error a consumer    *)
(* throws, and the value a source yields that catches a thrown error.      *)
SourceError == 70

ReturnError == 80

ThrownError == 90

CaughtValue == 7

(* iterator.next(): the next outcome, in call order.  nexts is the log of  *)
(* the outcomes the source has given to next(), one per call.              *)
SourceNext(it) ==
  IF it.closed
    THEN [iterator |-> [it EXCEPT !.nexts = Append(@, DoneResult)],
          outcome |-> DoneResult]
  ELSE IF it.pos < it.values
    THEN [iterator |->
            [it EXCEPT !.pos = @ + 1,
                       !.nexts = Append(@, Out("value", it.pos + 1))],
          outcome |-> Out("value", it.pos + 1)]
  ELSE IF it.fails
    THEN [iterator |->
            [it EXCEPT !.closed = TRUE,
                       !.nexts = Append(@, Out("reject", SourceError))],
          outcome |-> Out("reject", SourceError)]
  ELSE [iterator |-> [it EXCEPT !.closed = TRUE,
                                !.nexts = Append(@, DoneResult)],
        outcome |-> DoneResult]

(* iterator.return(): closes the source.                                   *)
SourceReturn(it) ==
  [iterator |-> [it EXCEPT !.closed = TRUE, !.returnCalls = @ + 1],
   outcome |-> IF it.returnRejects THEN Out("reject", ReturnError)
               ELSE DoneResult]

(* iterator.throw(error): the source fails with the error, or catches it   *)
(* and finishes or yields a value (how).                                   *)
SourceThrow(it, e, how) ==
  [iterator |-> [it EXCEPT !.closed = (how # "value"),
                            !.thrown = Append(@, e)],
   outcome |-> CASE how = "reject" -> Out("reject", e)
                 [] how = "done" -> DoneResult
                 [] OTHER -> Out("value", CaughtValue)]

(* A call on the mapped iterator.  src: what the source's promise settles  *)
(* to; cbArgs: the values callback (rejectCallback) was invoked with; cb:  *)
(* what the promise of asyncMapValue settles to; err: the error abruptClose*)
(* was called with; closes: the source's return() calls made by            *)
(* abruptClose; closeSeen: the outcome of return() rethrow was run with;   *)
(* out: what the promise handed to the caller settled to.                  *)
Op(kind, stage, src) ==
  [kind |-> kind, stage |-> stage, src |-> src, cb |-> "none",
   cbArgs |-> << >>, err |-> 0, closes |-> 0, closeSeen |-> NoOutcome,
   out |-> NoOutcome]

Settle(op, out) == [op EXCEPT !.stage = "settled", !.out = out]

(* What ops keeps of a settled call.                                       *)
Kept(op) ==
  [Op(op.kind, "settled", NoOutcome) EXCEPT !.cb = op.cb,
                                            !.closes = op.closes]

(* asyncMapValue(value, callback): a promise that resolves when callback   *)
(* returns a value or a promise that resolves, and rejects when callback   *)
(* throws or returns a promise that rejects.                               *)
asyncMapValue(does) ==
  IF does \in {"returns", "resolves"} THEN "ok" ELSE "fail"

(* next() of a mapped iterator that remembers that it was returned, and    *)
(* then resolves to a done result without asking the source.               *)
NextCallUnlessReturned(it) ==
  IF it.returnCalls > 0
  THEN [iterator |-> it,
        op |-> Settle(Op("next", "settled", NoOutcome), DoneResult)]
  ELSE LET r == SourceNext(it) IN
       [iterator |-> r.iterator, op |-> Op("next", "source", r.outcome)]

(* next() of the mapped iterator: iterator.next().then(...)                *)
NextCall(it) ==
  LET r == SourceNext(it) IN
  [iterator |-> r.iterator, op |-> Op("next", "source", r.outcome)]

(* return() that resolves without asking the source.                       *)
ReturnCallNoSource(it) ==
  [iterator |-> it, op |-> Settle(Op("return", "settled", NoOutcome),
                                  DoneResult)]

(* return() that asks the source whether or not it has a return method.    *)
ReturnCallAlwaysSource(it) ==
  LET r == SourceReturn(it) IN
  [iterator |-> r.iterator, op |-> Op("return", "source", r.outcome)]

(* return() of the mapped iterator: $return.call(iterator).then(...) when  *)
(* the source has a return method, a resolved done result otherwise.       *)
ReturnCall(it) ==
  IF it.hasReturn
  THEN LET r == SourceReturn(it) IN
       [iterator |-> r.iterator, op |-> Op("return", "source", r.outcome)]
  ELSE [iterator |-> it,
        op |-> Settle(Op("return", "settled", NoOutcome), DoneResult)]

(* throw(error) that rejects at once when the source has no throw method.  *)
ThrowCallNoClose(it, e, how) ==
  IF it.hasThrow
  THEN LET r == SourceThrow(it, e, how) IN
       [iterator |-> r.iterator, op |-> Op("throw", "source", r.outcome)]
  ELSE [iterator |-> it,
        op |-> Settle(Op("throw", "settled", NoOutcome), Out("rejected", e))]

(* throw(error) of the mapped iterator: iterator.throw(error).then(...)    *)
(* when the source has a throw method; otherwise a rejected promise whose  *)
(* catch handler is abruptClose.                                           *)
ThrowCall(it, e, how) ==
  IF it.hasThrow
  THEN LET r == SourceThrow(it, e, how) IN
       [iterator |-> r.iterator, op |-> Op("throw", "source", r.outcome)]
  ELSE [iterator |-> it,
        op |-> [Op("throw", "callback", NoOutcome) EXCEPT
                  !.cb = "fail", !.err = e]]

(* mapResult handing a value on without callback.                          *)
mapResultNoCallback(op, does) ==
  IF op.src.tag = "done" THEN Settle(op, op.src)
  ELSE Settle(op, Out("value", op.src.v))

(* mapResult(result): a done result is handed on; for a value callback is  *)
(* invoked and the promise of asyncMapValue awaited.                       *)
mapResult(op, does) ==
  IF op.src.tag = "done" THEN Settle(op, op.src)
  ELSE [op EXCEPT !.stage = "callback",
                  !.cb = asyncMapValue(does),
                  !.cbArgs = Append(@, op.src.v),
                  !.err = IF asyncMapValue(does) = "ok" THEN 0
                          ELSE CallbackError(op.src.v)]

(* mapReject that hands the rejection on, with or without rejectCallback.  *)
mapRejectHandsOn(op, hasReject, does) ==
  Settle(op, Out("rejected", op.src.v))

(* mapReject(error): rejectCallback is invoked with the error; without a   *)
(* rejectCallback the rejection is handed on.                              *)
mapReject(op, hasReject, does) ==
  IF hasReject
  THEN [op EXCEPT !.stage = "callback",
                  !.cb = asyncMapValue(does),
                  !.cbArgs = Append(@, op.src.v),
                  !.err = IF asyncMapValue(does) = "ok" THEN 0
                          ELSE CallbackError(op.src.v)]
  ELSE Settle(op, Out("rejected", op.src.v))

(* iteratorResult(value) of the value callback (rejectCallback) made.      *)
iteratorResult(op) ==
  Settle(op, Out("value", IF op.src.tag = "reject"
                          THEN RejectCallback(op.cbArgs[1])
                          ELSE Callback(op.cbArgs[1])))

(* rethrow that hands on the rejection of the source's return().           *)
rethrowCloseError(op, closeOut) ==
  Settle([op EXCEPT !.closeSeen = closeOut],
         Out("rejected", IF closeOut.tag = "reject" THEN closeOut.v
                         ELSE op.err))

(* abruptClose's rethrow, the handler of both outcomes of the source's     *)
(* return(): rejects with the error abruptClose was called with.           *)
rethrow(op, closeOut) ==
  Settle([op EXCEPT !.closeSeen = closeOut], Out("rejected", op.err))

InitMap ==
  /\ typeInfo = NewTypeInfo(Undefined)
  /\ open = << >>
  /\ left = << >>
  /\ IdleVisit
  /\ IdleCtx
  /\ IdleLib
  /\ IdleLoops
  /\ IdleExec
  /\ \E f, hr, ht, rr \in BOOLEAN :
       /\ rr => hr
       /\ iterator = [values |-> MaxValues, fails |-> f, hasReturn |-> hr,
                      hasThrow |-> ht, returnRejects |-> rr, pos |-> 0,
                      closed |-> FALSE, returnCalls |-> 0, thrown |-> << >>,
                      nexts |-> << >>]
  /\ rejectCallback \in BOOLEAN
  /\ ops = << >>
  /\ settled = << >>

Unsettled == {i \in 1..Len(ops) : ops[i].stage # "settled"}

CanCall == Len(ops) < MaxOps /\ Cardinality(Unsettled) < MaxPending

(* The call r.op is made: it is appended to ops (a call that settles at    *)
(* once is recorded in settled).                                           *)
Called(r) ==
  /\ iterator' = r.iterator
  /\ IF r.op.stage = "settled"
     THEN /\ ops' = Append(ops, Kept(r.op))
          /\ settled' = << [k |-> Len(ops) + 1, op |-> r.op] >>
     ELSE /\ ops' = Append(ops, r.op)
          /\ UNCHANGED settled

(* Call i moves on to op.                                                  *)
Moved(i, op) ==
  IF op.stage = "settled"
  THEN /\ ops' = [ops EXCEPT ![i] = Kept(op)]
       /\ settled' = << [k |-> i, op |-> op] >>
  ELSE /\ ops' = [ops EXCEPT ![i] = op]
       /\ UNCHANGED settled

(* The consumer calls next().                                              *)
Next_ ==
  /\ CanCall
  /\ Called(NextCall(iterator))
  /\ UNCHANGED << tiVars, visitVars, ctxVars, libVars, rejectCallback, execVars, loopVars >>

(* The consumer calls return().                                            *)
Return_ ==
  /\ CanCall
  /\ Called(ReturnCall(iterator))
  /\ UNCHANGED << tiVars, visitVars, ctxVars, libVars, rejectCallback, execVars, loopVars >>

(* The consumer calls throw(error), once in the life of the iterator.      *)
Throw_ ==
  /\ CanCall
  /\ \A i \in 1..Len(ops) : ops[i].kind # "throw"
  /\ \E how \in (IF iterator.hasThrow THEN {"reject", "done", "value"}
                 ELSE {"reject"}) :
       Called(ThrowCall(iterator, ThrownError, how))
  /\ UNCHANGED << tiVars, visitVars, ctxVars, libVars, rejectCallback, execVars, loopVars >>

(* The source's promise of call i settles and its handler runs: mapResult  *)
(* when it resolved, mapReject when it rejected.  callback or              *)
(* rejectCallback, when invoked, returns a value, throws, or returns a     *)
(* promise that resolves or one that rejects.                              *)
SourceSettles(i) ==
  /\ ops[i].stage = "source"
  /\ \E does \in {"returns", "throws", "resolves", "rejects"} :
       Moved(i, IF ops[i].src.tag = "reject"
                THEN mapReject(ops[i], rejectCallback, does)
                ELSE mapResult(ops[i], does))
  /\ UNCHANGED << tiVars, visitVars, ctxVars, libVars, iterator, rejectCallback,
             execVars, loopVars >>

(* The promise of asyncMapValue of call i settles: iteratorResult when it  *)
(* resolved; abruptClose when it rejected, which invokes the source's      *)
(* return() when the source has one (without, the rejection is handed on). *)
CallbackSettles(i) ==
  /\ ops[i].stage = "callback"
  /\ IF ops[i].cb = "ok"
     THEN /\ Moved(i, iteratorResult(ops[i]))
          /\ UNCHANGED iterator
     ELSE IF iterator.hasReturn
     THEN /\ iterator' = SourceReturn(iterator).iterator
          /\ Moved(i, [ops[i] EXCEPT !.stage = "closing", !.closes = @ + 1])
     ELSE /\ Moved(i, Settle(ops[i], Out("rejected", ops[i].err)))
          /\ UNCHANGED iterator
  /\ UNCHANGED << tiVars, visitVars, ctxVars, libVars, rejectCallback, execVars, loopVars >>

(* The source's return() called by abruptClose for call i settles, and     *)
(* rethrow runs with its outcome.                                          *)
CloseSettles(i) ==
  /\ ops[i].stage = "closing"
  /\ Moved(i, rethrow(ops[i], IF iterator.returnRejects
                              THEN Out("reject", ReturnError)
                              ELSE DoneResult))
  /\ UNCHANGED << tiVars, visitVars, ctxVars, libVars, iterator, rejectCallback,
             execVars, loopVars >>

NextMap ==
  \/ Next_
  \/ Return_
  \/ Throw_
  \/ \E i \in 1..Len(ops) : SourceSettles(i)
  \/ \E i \in 1..Len(ops) : CallbackSettles(i)
  \/ \E i \in 1..Len(ops) : CloseSettles(i)

SpecMap == InitMap /\ [][NextMap]_vars

(***************************************************************************)
(* C4.  Order is kept: with only next() called and callback never failing, *)
(* the k-th next() resolves to {value: callback(v_k), done: false} while   *)
(* the source has values and to a done result afterwards (for a source     *)
(* that does not fail), in whatever order the calls settle; callback was   *)
(* invoked once, with v_k, for a value and not at all for a done result.   *)
(***************************************************************************)
OnlyNextCalled == \A i \in 1..Len(ops) : ops[i].kind = "next"

CallbackNeverFailed == \A i \in 1..Len(ops) : ops[i].cb # "fail"

C4_MapKeepsOrder ==
  OnlyNextCalled /\ CallbackNeverFailed =>
    /\ settled # << >> =>
         LET k == settled[1].k
             op == settled[1].op
         IN /\ k <= iterator.values =>
                 /\ op.out = Out("value", Callback(k))
                 /\ op.cbArgs = << k >>
            /\ k > iterator.values /\ ~iterator.fails =>
                 /\ op.out = DoneResult
                 /\ op.cbArgs = << >>
    /\ \A i \in Unsettled :
         /\ Len(ops[i].cbArgs) <= 1
         /\ ops[i].stage = "callback" /\ i <= iterator.values =>
              ops[i].cbArgs = << i >>

(* The second next() has resolved to callback(v_2) while the first, called *)
(* before it, is still waiting for callback.                               *)
C4_Witness ==
  /\ OnlyNextCalled
  /\ CallbackNeverFailed
  /\ settled # << >>
  /\ settled[1].k = 2
  /\ settled[1].op.out = Out("value", Callback(2))
  /\ Len(ops) >= 2
  /\ ops[1].stage = "callback"

(***************************************************************************)
(* C5.  Abrupt close: when callback fails for a source value and the       *)
(* source has a return method, return() is invoked (once for that call),   *)
(* the call stays pending until return() has settled, and then rejects     *)
(* with callback's error, whether return() resolved or rejected.           *)
(***************************************************************************)
ReturnOutcome ==
  IF iterator.returnRejects THEN Out("reject", ReturnError) ELSE DoneResult

C5_AbruptCloseThenRethrow ==
  iterator.hasReturn =>
    /\ \A i \in 1..Len(ops) :
         ops[i].stage = "closing" =>
           /\ ops[i].closes = 1
           /\ ops[i].out = NoOutcome
           /\ iterator.returnCalls >= 1
    /\ settled # << >> /\ settled[1].op.cb = "fail"
         /\ settled[1].op.src.tag = "value" =>
         LET op == settled[1].op IN
         /\ op.closes = 1
         /\ op.closeSeen = ReturnOutcome
         /\ op.out = Out("rejected", CallbackError(op.src.v))

(* callback failed for the first value, the source's return() rejected,    *)
(* and next() has rejected with callback's error.                          *)
C5_Witness ==
  /\ iterator.hasReturn
  /\ iterator.returnRejects
  /\ settled # << >>
  /\ settled[1].op.kind = "next"
  /\ settled[1].op.cb = "fail"
  /\ settled[1].op.src = Out("value", 1)
  /\ settled[1].op.closeSeen.tag = "reject"
  /\ settled[1].op.out = Out("rejected", CallbackError(1))

(***************************************************************************)
(* C6.  One return() on the mapped iterator, with no abrupt close, invokes *)
(* the source's return() exactly once; the call resolves with the source's *)
(* done result, for which callback is not invoked.                         *)
(***************************************************************************)
ReturnCalls == {i \in 1..Len(ops) : ops[i].kind = "return"}

AbruptCloses == {i \in 1..Len(ops) : ops[i].closes > 0}

C6_ReturnClosesSourceOnce ==
  iterator.hasReturn =>
    /\ Cardinality(ReturnCalls) = 1 /\ AbruptCloses = {} =>
         iterator.returnCalls = 1
    /\ settled # << >> /\ settled[1].op.kind = "return"
         /\ settled[1].op.src.tag = "done" =>
         /\ settled[1].op.out = DoneResult
         /\ settled[1].op.cbArgs = << >>

(* After a value was mapped, return() was called once and has resolved     *)
(* with the source's done result.                                          *)
C6_Witness ==
  /\ iterator.hasReturn
  /\ Len(ops) = 2
  /\ ops[1].kind = "next"
  /\ ops[1].cb = "ok"
  /\ settled # << >>
  /\ settled[1].k = 2
  /\ settled[1].op.kind = "return"
  /\ settled[1].op.out = DoneResult
  /\ iterator.returnCalls = 1

(***************************************************************************)
(* C7.  Over the whole lifecycle of a mapped iterator the source's         *)
(* return() is invoked at most once.                                       *)
(***************************************************************************)
C7_SourceClosedOnce == iterator.returnCalls <= 1

(***************************************************************************)
(* C8.  throw(e) delegates: a source with a throw method has it called     *)
(* with e, once per call, and the result is mapped like a result of        *)
(* next(); for a source without one the source's throw is never called,    *)
(* return() is invoked when the source has it, callback is not invoked and *)
(* the call rejects with e.                                                *)
(***************************************************************************)
ThrowCalls == {i \in 1..Len(ops) : ops[i].kind = "throw"}

(* What mapResult / mapReject make of the outcome of a source promise.     *)
MappedLikeNext(op) ==
  CASE op.src.tag = "done" -> op.out = DoneResult /\ op.cbArgs = << >>
    [] op.src.tag = "value" ->
         /\ op.cbArgs = << op.src.v >>
         /\ op.out = IF op.cb = "ok" THEN Out("value", Callback(op.src.v))
                     ELSE Out("rejected", CallbackError(op.src.v))
    [] op.src.tag = "reject" /\ ~rejectCallback ->
         op.out = Out("rejected", op.src.v) /\ op.cbArgs = << >>
    [] op.src.tag = "reject" /\ rejectCallback ->
         /\ op.cbArgs = << op.src.v >>
         /\ op.out = IF op.cb = "ok"
                     THEN Out("value", RejectCallback(op.src.v))
                     ELSE Out("rejected", CallbackError(op.src.v))
    [] OTHER -> FALSE

C8_ThrowDelegates ==
  /\ iterator.thrown =
       [j \in 1..(IF iterator.hasThrow THEN Cardinality(ThrowCalls) ELSE 0)
          |-> ThrownError]
  /\ settled # << >> /\ settled[1].op.kind = "throw" =>
       LET op == settled[1].op IN
       IF iterator.hasThrow
       THEN MappedLikeNext(op)
       ELSE /\ op.out = Out("rejected", ThrownError)
            /\ op.closes = IF iterator.hasReturn THEN 1 ELSE 0
            /\ iterator.hasReturn => op.closeSeen = ReturnOutcome
            /\ op.cbArgs = << >>

(* throw(e) on a source without throw but with return(): return() was      *)
(* invoked and the call has rejected with e.                               *)
C8_Witness ==
  /\ ~iterator.hasThrow
  /\ iterator.hasReturn
  /\ settled # << >>
  /\ settled[1].op.kind = "throw"
  /\ settled[1].op.closes = 1
  /\ settled[1].op.out = Out("rejected", ThrownError)
  /\ iterator.returnCalls = 1

(* throw(e) on a source with throw that caught e and yielded a value: the  *)
(* call has resolved to callback of that value.                            *)
C8_WitnessDelegated ==
  /\ iterator.hasThrow
  /\ settled # << >>
  /\ settled[1].op.kind = "throw"
  /\ settled[1].op.out = Out("value", Callback(CaughtValue))

(***************************************************************************)
(* ASTValidationContext: getFragment, getFragmentSpreads and               *)
(* getRecursivelyReferencedFragments over a document.                      *)
(*                                                                         *)
(* A document is the sequence of its definitions: the operation first,     *)
(* then up to two fragment definitions named A or B (two definitions may   *)
(* share a name, a spread may name a fragment that is not defined).  A     *)
(* selection set is the sequence of its selections; a selection carries    *)
(* its selection set as a sequence of no or one element.  A node is        *)
(* identified by the index of its definition and the path of selection     *)
(* indices that leads to it; a selection set has the path of the node      *)
(* that owns it.  A fragment definition is identified by its index, no     *)
(* fragment by 0.                                                          *)
(***************************************************************************)
MaxSelections == 3

FragmentNames == {"A", "B"}

(* A selection: type is the type condition of an inline fragment,          *)
(* arguments the arguments of a field.                                     *)
Selection(kind, name, selectionSet) ==
  [kind |-> kind, name |-> name, type |-> Undefined, arguments |-> << >>,
   selectionSet |-> selectionSet]

(* A definition: name is the name of a fragment and, as in Doc, the kind   *)
(* of an operation; type is the type condition of a fragment.              *)
Definition(kind, name, selectionSet) ==
  [kind |-> kind, name |-> name, type |-> Undefined,
   variableDefinitions |-> << >>, selectionSet |-> selectionSet]

NodeId(def, path) == [def |-> def, path |-> path]

RECURSIVE SelectionSetsOfSize(_)

(* The selections that hold k selections, themselves included.             *)
SelectionsOfSize(k) ==
  IF k = 1
  THEN {Selection("FragmentSpread", name, << >>) : name \in FragmentNames}
         \cup {Selection("Field", "f", << >>)}
  ELSE {Selection(kind, IF kind = "Field" THEN "f" ELSE "", << set >>) :
          kind \in {"Field", "InlineFragment"},
          set \in SelectionSetsOfSize(k - 1)}

(* The selection sets that hold n selections, at any depth.                *)
SelectionSetsOfSize(n) ==
  IF n = 0 THEN {<< >>}
  ELSE UNION {{<< first >> \o rest :
                 first \in SelectionsOfSize(k),
                 rest \in SelectionSetsOfSize(n - k)} : k \in 1..n}

FragmentsOfSize(n) ==
  {Definition("FragmentDefinition", name, set) :
     name \in FragmentNames, set \in SelectionSetsOfSize(n)}

(* The documents with at most MaxSelections selections.                    *)
Documents ==
  UNION {UNION {UNION {
    {[kind |-> "Document",
      definitions |-> << Definition("OperationDefinition", "", set) >> \o frs]
       : set \in SelectionSetsOfSize(a),
         frs \in CASE b = 0 /\ c = 0 -> {<< >>}
                   [] b > 0 /\ c = 0 ->
                        {<< f >> : f \in FragmentsOfSize(b)}
                   [] b > 0 /\ c > 0 ->
                        {<< f, g >> : f \in FragmentsOfSize(b),
                                      g \in FragmentsOfSize(c)}
                   [] OTHER -> {}}
      : c \in 0..(MaxSelections - a - b)}
      : b \in 0..(MaxSelections - a)}
      : a \in 1..MaxSelections}

RECURSIVE selectionsAt(_, _)

(* set.selections of the selection set at path below selections.           *)
selectionsAt(selections, path) ==
  IF path = << >> THEN selections
  ELSE selectionsAt(selections[Head(path)].selectionSet[1], Tail(path))

selectionsOf(ast, set) ==
  selectionsAt(ast.definitions[set.def].selectionSet, set.path)

(* The selection node with this id.                                        *)
nodeAt(ast, node) ==
  selectionsOf(ast, NodeId(node.def, Front(node.path)))[Last(node.path)]

(* frags[statement.name.value] = statement, for a fragment definition.     *)
RECURSIVE reduceFragments(_, _, _)
reduceFragments(definitions, i, frags) ==
  IF i > Len(definitions) THEN frags
  ELSE reduceFragments(
         definitions, i + 1,
         IF definitions[i].kind = "FragmentDefinition"
         THEN (definitions[i].name :> i) @@ frags
         ELSE frags)

(* One more computation for key.                                           *)
Count(walks, key) ==
  IF key \in DOMAIN walks THEN [walks EXCEPT ![key] = @ + 1]
  ELSE (key :> 1) @@ walks

RECURSIVE reduceFragmentsKeepFirst(_, _, _)

(* An index that keeps the first definition of a name.                     *)
reduceFragmentsKeepFirst(definitions, i, frags) ==
  IF i > Len(definitions) THEN frags
  ELSE reduceFragmentsKeepFirst(
         definitions, i + 1,
         IF definitions[i].kind = "FragmentDefinition"
         THEN frags @@ (definitions[i].name :> i)
         ELSE frags)

(* getFragment over an index that keeps the first definition of a name.    *)
getFragmentKeepFirst(ctx, name) ==
  LET fragments ==
        IF ctx.fragments = << >>
        THEN reduceFragmentsKeepFirst(ctx.ast.definitions, 1,
                                      [n \in {} |-> 0])
        ELSE ctx.fragments[1]
  IN [ctx |-> [ctx EXCEPT !.fragments = << fragments >>,
                          !.walks.fragments =
                            IF ctx.fragments = << >> THEN @ + 1 ELSE @],
      result |-> IF name \in DOMAIN fragments THEN fragments[name] ELSE 0]

(* getFragment(name): builds the index of fragments on the first call.     *)
getFragment(ctx, name) ==
  LET fragments ==
        IF ctx.fragments = << >>
        THEN reduceFragments(ctx.ast.definitions, 1, [n \in {} |-> 0])
        ELSE ctx.fragments[1]
  IN [ctx |-> [ctx EXCEPT !.fragments = << fragments >>,
                          !.walks.fragments =
                            IF ctx.fragments = << >> THEN @ + 1 ELSE @],
      result |-> IF name \in DOMAIN fragments THEN fragments[name] ELSE 0]

(* A selection that is not a spread is passed over, its selection set too. *)
visitSelectionNoNested(ast, st, set, i) ==
  IF selectionsOf(ast, set)[i].kind = "FragmentSpread"
  THEN [st EXCEPT !.spreads = Append(@, NodeId(set.def, Append(set.path, i)))]
  ELSE st

(* A nested selection set is put first in setsToVisit, to be taken last.   *)
visitSelectionUnshift(ast, st, set, i) ==
  LET selection == selectionsOf(ast, set)[i]
      id == NodeId(set.def, Append(set.path, i))
  IN IF selection.kind = "FragmentSpread"
     THEN [st EXCEPT !.spreads = Append(@, id)]
     ELSE IF selection.selectionSet # << >>
     THEN [st EXCEPT !.setsToVisit = << id >> \o @]
     ELSE st

(* The body of the loop over set.selections: a spread is pushed on         *)
(* spreads, the selection set of another selection on setsToVisit.         *)
visitSelection(ast, st, set, i) ==
  LET selection == selectionsOf(ast, set)[i]
      id == NodeId(set.def, Append(set.path, i))
  IN IF selection.kind = "FragmentSpread"
     THEN [st EXCEPT !.spreads = Append(@, id)]
     ELSE IF selection.selectionSet # << >>
     THEN [st EXCEPT !.setsToVisit = Append(@, id)]
     ELSE st

RECURSIVE forSelections(_, _, _, _)
forSelections(ast, st, set, i) ==
  IF i > Len(selectionsOf(ast, set)) THEN st
  ELSE forSelections(ast, visitSelection(ast, st, set, i), set, i + 1)

RECURSIVE whileSetsToVisit(_, _)
whileSetsToVisit(ast, st) ==
  IF st.setsToVisit = << >> THEN st.spreads
  ELSE whileSetsToVisit(
         ast,
         forSelections(ast, [st EXCEPT !.setsToVisit = Front(@)],
                       Last(st.setsToVisit), 1))

(* getFragmentSpreads(node): the cached sequence, or the spreads found by  *)
(* the walk, which are then cached.                                        *)
getFragmentSpreads(ctx, node) ==
  IF node \in DOMAIN ctx.fragmentSpreads
  THEN [ctx |-> ctx, result |-> ctx.fragmentSpreads[node]]
  ELSE LET spreads ==
             whileSetsToVisit(ctx.ast, [setsToVisit |-> << node >>,
                                        spreads |-> << >>])
       IN [ctx |-> [ctx EXCEPT !.fragmentSpreads = (node :> spreads) @@ @,
                               !.walks.fragmentSpreads = Count(@, node)],
           result |-> spreads]

(* A fragment met for the first time is collected, but its own spreads     *)
(* are not followed.                                                       *)
collectSpreadNoFollow(st, spread) ==
  LET fragName == nodeAt(st.ctx.ast, spread).name
      got == getFragment(st.ctx, fragName)
  IN IF fragName \in st.collectedNames THEN st
     ELSE IF got.result # 0
     THEN [st EXCEPT !.ctx = got.ctx,
                     !.collectedNames = @ \cup {fragName},
                     !.fragments = Append(@, got.result)]
     ELSE [st EXCEPT !.ctx = got.ctx,
                     !.collectedNames = @ \cup {fragName}]

(* A fragment is collected and followed whenever a spread names it: the    *)
(* name is looked up but never recorded in collectedNames.                 *)
collectSpreadUnmarked(st, spread) ==
  LET fragName == nodeAt(st.ctx.ast, spread).name
      got == getFragment(st.ctx, fragName)
  IN IF fragName \in st.collectedNames THEN st
     ELSE IF got.result # 0
     THEN [st EXCEPT !.ctx = got.ctx,
                     !.fragments = Append(@, got.result),
                     !.nodesToVisit = Append(@, NodeId(got.result, << >>))]
     ELSE [st EXCEPT !.ctx = got.ctx]

(* The body of the loop over the spreads of a node: a name met for the     *)
(* first time is collected and, when the document defines the fragment,    *)
(* the fragment is pushed on fragments and its selection set on            *)
(* nodesToVisit.                                                           *)
collectSpread(st, spread) ==
  LET fragName == nodeAt(st.ctx.ast, spread).name
      got == getFragment(st.ctx, fragName)
  IN IF fragName \in st.collectedNames THEN st
     ELSE IF got.result # 0
     THEN [st EXCEPT !.ctx = got.ctx,
                     !.collectedNames = @ \cup {fragName},
                     !.fragments = Append(@, got.result),
                     !.nodesToVisit = Append(@, NodeId(got.result, << >>))]
     ELSE [st EXCEPT !.ctx = got.ctx,
                     !.collectedNames = @ \cup {fragName}]

RECURSIVE forSpreads(_, _, _)
forSpreads(st, spreads, i) ==
  IF i > Len(spreads) THEN st
  ELSE forSpreads(collectSpread(st, spreads[i]), spreads, i + 1)

RECURSIVE whileNodesToVisit(_)
whileNodesToVisit(st) ==
  IF st.nodesToVisit = << >> THEN st
  ELSE LET got == getFragmentSpreads(st.ctx, Last(st.nodesToVisit))
       IN whileNodesToVisit(
            forSpreads([st EXCEPT !.nodesToVisit = Front(@),
                                  !.ctx = got.ctx],
                       got.result, 1))

(* getRecursivelyReferencedFragments(operation): the cached sequence, or   *)
(* the fragments collected from the operation's selection set on, which    *)
(* are then cached.                                                        *)
getRecursivelyReferencedFragments(ctx, operation) ==
  IF operation \in DOMAIN ctx.recursivelyReferencedFragments
  THEN [ctx |-> ctx, result |-> ctx.recursivelyReferencedFragments[operation]]
  ELSE LET st == whileNodesToVisit(
                   [ctx |-> ctx,
                    fragments |-> << >>,
                    collectedNames |-> {},
                    nodesToVisit |-> << NodeId(operation, << >>) >>])
       IN [ctx |-> [st.ctx EXCEPT !.recursivelyReferencedFragments =
                                    (operation :> st.fragments) @@ @,
                                  !.walks.recursivelyReferencedFragments =
                                    Count(@, operation)],
           result |-> st.fragments]

RECURSIVE PathsIn(_)

(* The paths of all selections of a selection set, at any depth.           *)
PathsIn(selections) ==
  UNION {{<< i >>} \cup
         (IF selections[i].selectionSet = << >> THEN {}
          ELSE {<< i >> \o p : p \in PathsIn(selections[i].selectionSet[1])})
           : i \in 1..Len(selections)}

SelectionNodes(ast) ==
  UNION {{NodeId(d, p) : p \in PathsIn(ast.definitions[d].selectionSet)}
           : d \in 1..Len(ast.definitions)}

(* The selection sets of the document: one per definition and one per      *)
(* selection that has one.                                                 *)
SelectionSetNodes(ast) ==
  {NodeId(d, << >>) : d \in 1..Len(ast.definitions)}
    \cup {n \in SelectionNodes(ast) : nodeAt(ast, n).selectionSet # << >>}

OperationNodes(ast) ==
  {d \in 1..Len(ast.definitions) :
     ast.definitions[d].kind = "OperationDefinition"}

InitCtx ==
  /\ typeInfo = NewTypeInfo(Undefined)
  /\ open = << >>
  /\ left = << >>
  /\ IdleVisit
  /\ IdleMap
  /\ IdleLib
  /\ IdleLoops
  /\ IdleExec
  /\ \E ast \in Documents : context = NewContext(ast)
  /\ served = FALSE
  /\ errors = << >>
  /\ position = 0

(* A rule calls context.getFragment(name).                                 *)
GetFragment ==
  /\ \E name \in FragmentNames : context' = getFragment(context, name).ctx
  /\ UNCHANGED << tiVars, visitVars, mapVars, served, errors, position, libVars,
             execVars, loopVars >>

(* A rule calls context.getFragmentSpreads(node).                          *)
GetFragmentSpreads ==
  /\ \E node \in SelectionSetNodes(context.ast) :
       context' = getFragmentSpreads(context, node).ctx
  /\ UNCHANGED << tiVars, visitVars, mapVars, served, errors, position, libVars,
             execVars, loopVars >>

(* A rule calls context.getRecursivelyReferencedFragments(operation).      *)
GetRecursivelyReferencedFragments ==
  /\ \E operation \in OperationNodes(context.ast) :
       context' = getRecursivelyReferencedFragments(context, operation).ctx
  /\ UNCHANGED << tiVars, visitVars, mapVars, served, errors, position, libVars,
             execVars, loopVars >>

NextCtx ==
  \/ GetFragment
  \/ GetFragmentSpreads
  \/ GetRecursivelyReferencedFragments

SpecCtx == InitCtx /\ [][NextCtx]_vars

(* The spreads below a selection set, by their place in the document.      *)
IsPrefix(p, q) == Len(p) <= Len(q) /\ SubSeq(q, 1, Len(p)) = p

SpreadsUnder(ast, set) ==
  {n \in SelectionNodes(ast) :
     /\ n.def = set.def
     /\ IsPrefix(set.path, n.path)
     /\ nodeAt(ast, n).kind = "FragmentSpread"}

(* The fragment definition a name stands for: the last one of that name.   *)
FragmentNamed(ast, name) ==
  LET ds == {d \in 1..Len(ast.definitions) :
               /\ ast.definitions[d].kind = "FragmentDefinition"
               /\ ast.definitions[d].name = name}
  IN IF ds = {} THEN 0 ELSE CHOOSE d \in ds : \A e \in ds : e <= d

(* The fragments the spreads of definition d name.                         *)
SpreadTargets(ast, d) ==
  {FragmentNamed(ast, nodeAt(ast, n).name) :
     n \in SpreadsUnder(ast, NodeId(d, << >>))} \ {0}

RECURSIVE ReachableFrom(_, _)
ReachableFrom(ast, ds) ==
  LET more == ds \cup UNION {SpreadTargets(ast, d) : d \in ds}
  IN IF more = ds THEN ds ELSE ReachableFrom(ast, more)

Range(seq) == {seq[i] : i \in 1..Len(seq)}

(***************************************************************************)
(* C9.  Every sequence getRecursivelyReferencedFragments(operation) has    *)
(* returned (the one it keeps for the operation) holds exactly the         *)
(* fragment definitions reachable from the operation's selection set       *)
(* through chains of spreads of defined fragments, each exactly once.      *)
(***************************************************************************)
C9_ReachableFragmentsOnce ==
  \A operation \in DOMAIN context.recursivelyReferencedFragments :
    LET fragments == context.recursivelyReferencedFragments[operation]
        reachable == ReachableFrom(context.ast,
                                   SpreadTargets(context.ast, operation))
    IN /\ Range(fragments) = reachable
       /\ Len(fragments) = Cardinality(reachable)

(* The operation spreads A, A spreads B and B spreads A again: the result  *)
(* holds the two fragments, once each.                                     *)
C9_Witness ==
  /\ context.recursivelyReferencedFragments # [operation \in {} |-> << >>]
  /\ Len(context.ast.definitions) = 3
  /\ context.ast.definitions[1].selectionSet =
       << Selection("FragmentSpread", "A", << >>) >>
  /\ context.ast.definitions[2] =
       Definition("FragmentDefinition", "A",
                  << Selection("FragmentSpread", "B", << >>) >>)
  /\ context.ast.definitions[3] =
       Definition("FragmentDefinition", "B",
                  << Selection("FragmentSpread", "A", << >>) >>)
  /\ context.recursivelyReferencedFragments[1] = << 2, 3 >>

(* The operation spreads A and B, of which only A is defined: the result   *)
(* holds A alone.                                                          *)
C9_WitnessUndefined ==
  /\ Len(context.ast.definitions) = 2
  /\ context.ast.definitions[1].selectionSet =
       << Selection("FragmentSpread", "A", << >>),
          Selection("FragmentSpread", "B", << >>) >>
  /\ context.ast.definitions[2].name = "A"
  /\ 1 \in DOMAIN context.recursivelyReferencedFragments
  /\ context.recursivelyReferencedFragments[1] = << 2 >>

(***************************************************************************)
(* C10.  Every sequence getFragmentSpreads(S) has returned (the one it     *)
(* keeps for S) holds exactly the FragmentSpread nodes in S or in the      *)
(* selection sets nested under S at any depth, each node once, and none    *)
(* of another definition.                                                  *)
(***************************************************************************)
C10_SpreadsOfSelectionSet ==
  \A set \in DOMAIN context.fragmentSpreads :
    LET spreads == context.fragmentSpreads[set]
    IN /\ Range(spreads) = SpreadsUnder(context.ast, set)
       /\ Len(spreads) = Cardinality(SpreadsUnder(context.ast, set))
       /\ \A i \in 1..Len(spreads) : spreads[i].def = set.def

(* The operation selects a field that spreads A, fragment A spreads B:     *)
(* the spreads of the operation's selection set are the one nested in the  *)
(* field, not the one inside fragment A.                                   *)
C10_Witness ==
  /\ Len(context.ast.definitions) = 2
  /\ context.ast.definitions[1].selectionSet =
       << Selection("Field", "f",
                    << << Selection("FragmentSpread", "A", << >>) >> >>) >>
  /\ context.ast.definitions[2] =
       Definition("FragmentDefinition", "A",
                  << Selection("FragmentSpread", "B", << >>) >>)
  /\ NodeId(1, << >>) \in DOMAIN context.fragmentSpreads
  /\ context.fragmentSpreads[NodeId(1, << >>)] = << NodeId(1, << 1, 1 >>) >>

(***************************************************************************)
(* The nodes below a node of the document, the variables among them that   *)
(* do not lie in a VariableDefinition, and the TypeInfo at a node: the one *)
(* that has entered the nodes on the way from the root to it.              *)
(***************************************************************************)
RECURSIVE Descendants(_)
Descendants(n) ==
  UNION {{c} \cup Descendants(c) :
           c \in {Doc[n].children[i] : i \in 1..Len(Doc[n].children)}}

InVariableDefinition(root, n) ==
  \E d \in {root} \cup Descendants(root) :
    Doc[d].kind = "VariableDefinition" /\ n \in Descendants(d)

UsedVariables(root) ==
  {n \in Descendants(root) :
     Doc[n].kind = "Variable" /\ ~InVariableDefinition(root, n)}

RECURSIVE PathTo(_, _)
PathTo(root, n) ==
  IF root = n THEN << n >>
  ELSE << root >> \o
       PathTo(CHOOSE c \in Descendants(root) :
                /\ \E i \in 1..Len(Doc[root].children) :
                     Doc[root].children[i] = c
                /\ n \in {c} \cup Descendants(c),
              n)

RECURSIVE EnterAll(_, _)
EnterAll(ti, path) ==
  IF path = << >> THEN ti
  ELSE EnterAll(enter(ti, Doc[Head(path)]), Tail(path))

(***************************************************************************)
(* C11.  When the walk of getVariableUsages(node) is over, newUsages holds *)
(* one entry for every Variable below node that is not inside a            *)
(* VariableDefinition and none for a Variable inside one, and each entry   *)
(* carries the input type and the default value of the TypeInfo at that    *)
(* variable.                                                               *)
(***************************************************************************)
C11_UsagesOfVariables ==
  pc = "done" /\ visitor.mode = "usages" =>
    LET root == last[1].node
        nodes == {usages[i].node : i \in 1..Len(usages)}
    IN /\ nodes = UsedVariables(root)
       /\ Len(usages) = Cardinality(nodes)
       /\ \A t \in WalkInitialTypes :
            ended = << Stacks(NewTypeInfo(t)) >> =>
              \A i \in 1..Len(usages) :
                LET at == EnterAll(NewTypeInfo(t),
                                   PathTo(root, usages[i].node))
                IN /\ usages[i].type = getInputType(at)
                   /\ usages[i].defaultValue = getDefaultValue(at)

(* getVariableUsages of the operation, with a fresh TypeInfo, is over: the *)
(* variables of the two variable definitions are left out, the variable of *)
(* the object field f is there with the type and the default value of the  *)
(* input field.                                                            *)
C11_Witness ==
  /\ pc = "done"
  /\ visitor.mode = "usages"
  /\ last[1].node = 2
  /\ ended = << Stacks(NewTypeInfo(Undefined)) >>
  /\ Len(usages) = 4
  /\ \A i \in 1..Len(usages) : usages[i].node \notin {4, 9}
  /\ usages[3] = [node |-> 34, type |-> << "Int" >>,
                  defaultValue |-> << "1" >>]

(***************************************************************************)
(* ValidationContext: getVariableUsages and getRecursiveVariableUsages,    *)
(* over the documents above written with variables: the operation is       *)
(*   query ($v: ID) { ... },                                               *)
(* every fragment is on Query and every field f is pet(id: $v).  A         *)
(* Variable is identified by the field it is an argument of and the index  *)
(* of the argument.                                                        *)
(***************************************************************************)
Variable(name) == [kind |-> "Variable", name |-> name, type |-> Undefined]

Argument(name, value) ==
  [kind |-> "Argument", name |-> name, type |-> Undefined, value |-> value]

VariableDefinition(name, type) ==
  [kind |-> "VariableDefinition", name |-> "", type |-> type,
   variable |-> Variable(name)]

VariableId(field, i) == [def |-> field.def, path |-> field.path, arg |-> i]

RECURSIVE SelectionsWithVariables(_)
SelectionsWithVariables(selections) ==
  [i \in 1..Len(selections) |->
     LET selection == selections[i]
         inner == IF selection.selectionSet = << >> THEN << >>
                  ELSE << SelectionsWithVariables(selection.selectionSet[1]) >>
     IN IF selection.kind = "Field"
        THEN [selection EXCEPT
                !.name = "pet",
                !.arguments = << Argument("id", Variable("v")) >>,
                !.selectionSet = inner]
        ELSE [selection EXCEPT !.selectionSet = inner]]

WithVariables(ast) ==
  [ast EXCEPT !.definitions =
     [d \in 1..Len(ast.definitions) |->
        LET definition == ast.definitions[d]
            set == SelectionsWithVariables(definition.selectionSet)
        IN IF definition.kind = "OperationDefinition"
           THEN [definition EXCEPT
                   !.name = "query",
                   !.variableDefinitions =
                     << VariableDefinition("v", << "ID" >>) >>,
                   !.selectionSet = set]
           ELSE [definition EXCEPT !.type = << "Query" >>,
                                   !.selectionSet = set]]]

(* The node of kind SelectionSet, as TypeInfo meets it.                    *)
SelectionSetNode == N("SelectionSet", "", Undefined, << >>)

(* F(value), with value computed once however often F refers to it.       *)
Bind(value, F(_)) == CHOOSE result \in {F(v) : v \in {value}} : TRUE

(* The Variable function of the visitor: the walk has reached a Variable.  *)
(* TypeInfo does nothing on entering and leaving it.                       *)
walkVariable(st, id) ==
  Bind(st, LAMBDA s :
    [s EXCEPT !.newUsages =
       Append(@, [node |-> id,
                  type |-> getInputType(s.typeInfo),
                  defaultValue |-> getDefaultValue(s.typeInfo)])])

(* The walk through an argument and its value.                             *)
walkArgument(st, argument, id) ==
  Bind([st EXCEPT !.typeInfo = enter(@, argument)], LAMBDA entered :
    Bind(IF argument.value.kind = "Variable"
         THEN walkVariable(entered, id)
         ELSE entered,
         LAMBDA inside : [inside EXCEPT !.typeInfo = leave(@, argument)]))

RECURSIVE walkArguments(_, _, _, _)
walkArguments(st, arguments, field, i) ==
  IF i > Len(arguments) THEN st
  ELSE Bind(walkArgument(st, arguments[i], VariableId(field, i)),
            LAMBDA next : walkArguments(next, arguments, field, i + 1))

(* The VariableDefinition function of the visitor returns false: the       *)
(* wrapper leaves the node at once and the walk passes it over.            *)
walkVariableDefinition(st, definition) ==
  [st EXCEPT !.typeInfo = leave(enter(@, definition), definition)]

RECURSIVE walkVariableDefinitions(_, _, _)
walkVariableDefinitions(st, definitions, i) ==
  IF i > Len(definitions) THEN st
  ELSE Bind(walkVariableDefinition(st, definitions[i]),
            LAMBDA next : walkVariableDefinitions(next, definitions, i + 1))

RECURSIVE walkSelectionSet(_, _, _)

(* The walk through selection i of a selection set: its arguments, then    *)
(* its selection set.                                                      *)
walkSelection(st, ast, set, i) ==
  LET selection == selectionsOf(ast, set)[i]
      id == NodeId(set.def, Append(set.path, i))
  IN Bind([st EXCEPT !.typeInfo = enter(@, selection)], LAMBDA entered :
       Bind(walkArguments(entered, selection.arguments, id, 1), LAMBDA args :
         Bind(IF selection.selectionSet = << >> THEN args
              ELSE walkSelectionSet(args, ast, id),
              LAMBDA inside : [inside EXCEPT !.typeInfo = leave(@, selection)])))

RECURSIVE walkSelections(_, _, _, _)
walkSelections(st, ast, set, i) ==
  IF i > Len(selectionsOf(ast, set)) THEN st
  ELSE Bind(walkSelection(st, ast, set, i),
            LAMBDA next : walkSelections(next, ast, set, i + 1))

walkSelectionSet(st, ast, set) ==
  Bind([st EXCEPT !.typeInfo = enter(@, SelectionSetNode)], LAMBDA entered :
    Bind(walkSelections(entered, ast, set, 1), LAMBDA inside :
      [inside EXCEPT !.typeInfo = leave(@, SelectionSetNode)]))

(* visit(node, visitWithTypeInfo(typeInfo, ...)) for an operation or a     *)
(* fragment definition: its variable definitions, then its selection set.  *)
walkDefinition(st, ast, node) ==
  LET definition == ast.definitions[node]
  IN Bind([st EXCEPT !.typeInfo = enter(@, definition)], LAMBDA entered :
       Bind(walkVariableDefinitions(entered,
                                    definition.variableDefinitions, 1),
            LAMBDA defined :
         Bind(walkSelectionSet(defined, ast, NodeId(node, << >>)),
              LAMBDA inside :
                [inside EXCEPT !.typeInfo = leave(@, definition)])))

(* getVariableUsages in which a cached empty sequence counts as no entry.  *)
getVariableUsagesEmptyMiss(ctx, node) ==
  IF node \in DOMAIN ctx.variableUsages /\ ctx.variableUsages[node] # << >>
  THEN [ctx |-> ctx, result |-> ctx.variableUsages[node]]
  ELSE Bind(walkDefinition([typeInfo |-> NewTypeInfo(Undefined),
                            newUsages |-> << >>], ctx.ast, node),
            LAMBDA st :
              [ctx |-> [ctx EXCEPT
                          !.variableUsages = (node :> st.newUsages) @@ @,
                          !.walks.variableUsages = Count(@, node)],
               result |-> st.newUsages])

(* getVariableUsages(node): the cached sequence, or the usages a walk with *)
(* a new TypeInfo finds, which are then cached.                            *)
getVariableUsages(ctx, node) ==
  IF node \in DOMAIN ctx.variableUsages
  THEN [ctx |-> ctx, result |-> ctx.variableUsages[node]]
  ELSE Bind(walkDefinition([typeInfo |-> NewTypeInfo(Undefined),
                            newUsages |-> << >>], ctx.ast, node),
            LAMBDA st :
              [ctx |-> [ctx EXCEPT
                          !.variableUsages = (node :> st.newUsages) @@ @,
                          !.walks.variableUsages = Count(@, node)],
               result |-> st.newUsages])

(* usages = usages.concat(this.getVariableUsages(frag)), for each frag.    *)
RECURSIVE forFragments(_, _, _)
forFragments(st, fragments, i) ==
  IF i > Len(fragments) THEN st
  ELSE Bind(getVariableUsages(st.ctx, fragments[i]), LAMBDA got :
         Bind([ctx |-> got.ctx, usages |-> st.usages \o got.result],
              LAMBDA next : forFragments(next, fragments, i + 1)))

(* getRecursiveVariableUsages that starts from no usages instead of the    *)
(* operation's own.                                                        *)
getRecursiveVariableUsagesFragmentsOnly(ctx, operation) ==
  IF operation \in DOMAIN ctx.recursiveVariableUsages
  THEN [ctx |-> ctx, result |-> ctx.recursiveVariableUsages[operation]]
  ELSE Bind(getVariableUsages(ctx, operation), LAMBDA own :
         Bind(getRecursivelyReferencedFragments(own.ctx, operation),
              LAMBDA frags :
           Bind(forFragments([ctx |-> frags.ctx, usages |-> << >>],
                             frags.result, 1),
                LAMBDA st :
                  [ctx |-> [st.ctx EXCEPT
                              !.recursiveVariableUsages =
                                (operation :> st.usages) @@ @,
                              !.walks.recursiveVariableUsages =
                                Count(@, operation)],
                   result |-> st.usages])))

(* getRecursiveVariableUsages(operation): the cached sequence, or the      *)
(* operation's usages followed by those of each recursively referenced     *)
(* fragment, which are then cached.                                        *)
getRecursiveVariableUsages(ctx, operation) ==
  IF operation \in DOMAIN ctx.recursiveVariableUsages
  THEN [ctx |-> ctx, result |-> ctx.recursiveVariableUsages[operation]]
  ELSE Bind(getVariableUsages(ctx, operation), LAMBDA own :
         Bind(getRecursivelyReferencedFragments(own.ctx, operation),
              LAMBDA frags :
           Bind(forFragments([ctx |-> frags.ctx, usages |-> own.result],
                             frags.result, 1),
                LAMBDA st :
                  [ctx |-> [st.ctx EXCEPT
                              !.recursiveVariableUsages =
                                (operation :> st.usages) @@ @,
                              !.walks.recursiveVariableUsages =
                                Count(@, operation)],
                   result |-> st.usages])))

(* getVariableUsages that walks with the TypeInfo of the context instead   *)
(* of a new one.                                                           *)
getVariableUsagesOfContextOwn(ctx, own, node) ==
  IF node \in DOMAIN ctx.variableUsages
  THEN [ctx |-> ctx, typeInfo |-> own, result |-> ctx.variableUsages[node]]
  ELSE Bind(walkDefinition([typeInfo |-> own, newUsages |-> << >>],
                           ctx.ast, node),
            LAMBDA st :
              [ctx |-> [ctx EXCEPT
                          !.variableUsages = (node :> st.newUsages) @@ @,
                          !.walks.variableUsages = Count(@, node)],
               typeInfo |-> st.typeInfo,
               result |-> st.newUsages])

(* context.getVariableUsages(node) on the context whose _typeInfo is own:  *)
(* the method does not refer to this._typeInfo.                            *)
getVariableUsagesOfContext(ctx, own, node) ==
  Bind(getVariableUsages(ctx, node), LAMBDA got :
    [ctx |-> got.ctx, typeInfo |-> own, result |-> got.result])

(* context.getRecursiveVariableUsages(operation) on the context whose      *)
(* _typeInfo is own.                                                       *)
getRecursiveVariableUsagesOfContext(ctx, own, operation) ==
  Bind(getRecursiveVariableUsages(ctx, operation), LAMBDA got :
    [ctx |-> got.ctx, typeInfo |-> own, result |-> got.result])

(* The documents in which no selection has a selection set and the         *)
(* fragments defined are A, or A and then B.                               *)
FlatDocuments ==
  {ast \in Documents :
     /\ \A node \in SelectionNodes(ast) :
          nodeAt(ast, node).selectionSet = << >>
     /\ \A d \in 1..Len(ast.definitions) :
          ast.definitions[d].kind = "FragmentDefinition" =>
            ast.definitions[d].name = (IF d = Len(ast.definitions) /\ d > 2
                                       THEN "B" ELSE "A")}

InitValidation ==
  /\ typeInfo = NewTypeInfo(Undefined)
  /\ open = << >>
  /\ left = << >>
  /\ IdleVisit
  /\ IdleMap
  /\ IdleLib
  /\ IdleLoops
  /\ IdleExec
  /\ \E ast \in FlatDocuments :
       context = NewValidationContext(WithVariables(ast))
  /\ served = FALSE
  /\ errors = << >>
  /\ position = 0

(* A call on the context: served tells whether nothing was computed.       *)
Serve(ctx) ==
  /\ context' = ctx
  /\ served' = (context'.walks = context.walks)
  /\ UNCHANGED << tiVars, visitVars, mapVars, errors, position, libVars,
             execVars, loopVars >>

CallGetFragment ==
  \E name \in FragmentNames : Serve(getFragment(context, name).ctx)

CallGetFragmentSpreads ==
  \E node \in SelectionSetNodes(context.ast) :
    Serve(getFragmentSpreads(context, node).ctx)

CallGetRecursivelyReferencedFragments ==
  \E operation \in OperationNodes(context.ast) :
    Serve(getRecursivelyReferencedFragments(context, operation).ctx)

(* A rule calls context.getVariableUsages(node) with an operation or a     *)
(* fragment definition.                                                    *)
CallGetVariableUsages ==
  \E node \in 1..Len(context.ast.definitions) :
    Serve(getVariableUsages(context, node).ctx)

(* A rule calls context.getRecursiveVariableUsages(operation).             *)
CallGetRecursiveVariableUsages ==
  \E operation \in OperationNodes(context.ast) :
    Serve(getRecursiveVariableUsages(context, operation).ctx)

NextValidation ==
  \/ CallGetFragment
  \/ CallGetFragmentSpreads
  \/ CallGetRecursivelyReferencedFragments
  \/ CallGetVariableUsages
  \/ CallGetRecursiveVariableUsages

SpecValidation == InitValidation /\ [][NextValidation]_vars

(* The usages and the fragments a context computes that has no caches yet. *)
UsagesOf(ast, node) ==
  getVariableUsages(NewValidationContext(ast), node).result

FragmentsOf(ast, operation) ==
  getRecursivelyReferencedFragments(NewValidationContext(ast),
                                    operation).result

RECURSIVE ConcatUsages(_, _)
ConcatUsages(ast, nodes) ==
  IF nodes = << >> THEN << >>
  ELSE UsagesOf(ast, Head(nodes)) \o ConcatUsages(ast, Tail(nodes))

(***************************************************************************)
(* C12.  Every sequence getRecursiveVariableUsages(operation) has returned *)
(* (the one it keeps for the operation) is the variable usages of the      *)
(* operation followed by those of each fragment of                         *)
(* getRecursivelyReferencedFragments(operation), in that order; a          *)
(* definition contributes its usages once, or not at all when it is not    *)
(* among them.                                                             *)
(***************************************************************************)
C12_OwnThenFragmentUsages ==
  \A operation \in DOMAIN context.recursiveVariableUsages :
    LET found == context.recursiveVariableUsages[operation]
        fragments == FragmentsOf(context.ast, operation)
    IN /\ found = UsagesOf(context.ast, operation)
                     \o ConcatUsages(context.ast, fragments)
       /\ \A d \in 1..Len(context.ast.definitions) :
            Cardinality({i \in 1..Len(found) : found[i].node.def = d})
              = IF d = operation \/ d \in Range(fragments)
                THEN Len(UsagesOf(context.ast, d))
                ELSE 0

(* query ($v: ID) { pet(id: $v) ...A } with fragment A on Query            *)
(* { pet(id: $v) }: the usage of the operation, then the one of A.         *)
C12_Witness ==
  /\ 1 \in DOMAIN context.recursiveVariableUsages
  /\ Len(context.ast.definitions) = 2
  /\ Len(context.ast.definitions[1].selectionSet) = 2
  /\ context.ast.definitions[1].selectionSet[2].kind = "FragmentSpread"
  /\ context.recursiveVariableUsages[1] =
       << [node |-> VariableId(NodeId(1, << 1 >>), 1),
           type |-> << "NonNull", "ID" >>, defaultValue |-> Undefined],
          [node |-> VariableId(NodeId(2, << 1 >>), 1),
           type |-> << "NonNull", "ID" >>, defaultValue |-> Undefined] >>

(***************************************************************************)
(* C13.  Each analysis of a validation context is computed at most once    *)
(* per key node, and the fragment index at most once, in any interleaving  *)
(* of calls; what is cached for a key, an empty sequence too, stays what   *)
(* every later call with that key returns.                                 *)
(***************************************************************************)
WalkedOnce ==
  /\ context.walks.fragments <= 1
  /\ \A node \in DOMAIN context.walks.fragmentSpreads :
       context.walks.fragmentSpreads[node] <= 1
  /\ \A node \in DOMAIN context.walks.recursivelyReferencedFragments :
       context.walks.recursivelyReferencedFragments[node] <= 1
  /\ \A node \in DOMAIN context.walks.variableUsages :
       context.walks.variableUsages[node] <= 1
  /\ \A node \in DOMAIN context.walks.recursiveVariableUsages :
       context.walks.recursiveVariableUsages[node] <= 1

CacheKept(cache, cacheAfter) ==
  \A node \in DOMAIN cache :
    node \in DOMAIN cacheAfter /\ cacheAfter[node] = cache[node]

CachesKept ==
  /\ context.fragments # << >> => context'.fragments = context.fragments
  /\ CacheKept(context.fragmentSpreads, context'.fragmentSpreads)
  /\ CacheKept(context.recursivelyReferencedFragments,
          context'.recursivelyReferencedFragments)
  /\ CacheKept(context.variableUsages, context'.variableUsages)
  /\ CacheKept(context.recursiveVariableUsages, context'.recursiveVariableUsages)
  /\ served' => context' = context

C13_ComputedOncePerKey == []WalkedOnce /\ [][CachesKept]_vars

(* query ($v: ID) { pet(id: $v) } has no spreads: the empty spreads of its *)
(* selection set and its empty list of fragments are cached, nothing else  *)
(* is, and the last call, for one of the two, computed nothing.            *)
C13_Witness ==
  /\ served
  /\ Len(context.ast.definitions) = 1
  /\ context.fragments = << >>
  /\ DOMAIN context.variableUsages = {}
  /\ DOMAIN context.recursiveVariableUsages = {}
  /\ DOMAIN context.fragmentSpreads = {NodeId(1, << >>)}
  /\ context.fragmentSpreads[NodeId(1, << >>)] = << >>
  /\ DOMAIN context.recursivelyReferencedFragments = {1}
  /\ context.recursivelyReferencedFragments[1] = << >>
  /\ context.walks.fragmentSpreads[NodeId(1, << >>)] = 1
  /\ context.walks.recursivelyReferencedFragments[1] = 1

(***************************************************************************)
(* TypeInfo over selections built from the schema's names: a selection     *)
(* set, its fields, their directives and arguments, nested as the grammar  *)
(* nests them, on a TypeInfo constructed with any initial type.            *)
(***************************************************************************)

(* The deepest nesting: selection set, field, directive, argument.         *)
MaxNesting == 4

(* The initial types: none, the roots, an object, an interface, a union,   *)
(* a scalar, an input object and a list of the query root.                 *)
ParentTypes ==
  {Undefined, << "Query" >>, << "Mutation" >>, << "Dog" >>, << "Pet" >>,
   << "U" >>, << "String" >>, << "Inp" >>, << "List", "Query" >>}

FieldNode(name) == N("Field", name, Undefined, << >>)

DirectiveNode(name) == N("Directive", name, Undefined, << >>)

ArgumentNode(name) == N("Argument", name, Undefined, << >>)

FieldNodes ==
  {FieldNode(name) :
     name \in {"__schema", "__type", "__typename", "us", "q", "name", "bark",
               "nope"}}

DirectiveNodes == {DirectiveNode(name) : name \in {"skip", "nope"}}

ArgumentNodes == {ArgumentNode(name) : name \in {"if", "in", "name"}}

(* The nodes the grammar allows under the innermost open node; a walk      *)
(* starts at a selection set or at a field.                                *)
ChildNodes(path) ==
  IF path = << >> THEN {SelectionSetNode} \cup FieldNodes
  ELSE CASE Last(path).kind = "SelectionSet" -> FieldNodes
         [] Last(path).kind = "Field" ->
              ArgumentNodes \cup DirectiveNodes \cup {SelectionSetNode}
         [] Last(path).kind = "Directive" -> ArgumentNodes
         [] OTHER -> {}

InitSelections ==
  /\ \E t \in ParentTypes : typeInfo = NewTypeInfo(t)
  /\ open = << >>
  /\ left = << >>
  /\ IdleVisit
  /\ IdleMap
  /\ IdleLib
  /\ IdleLoops
  /\ IdleExec
  /\ IdleCtx

(* typeInfo.enter(node)                                                    *)
EnterSelection(node) ==
  /\ Len(open) < MaxNesting
  /\ node \in ChildNodes(open)
  /\ typeInfo' = enter(typeInfo, node)
  /\ open' = Append(open, node)
  /\ UNCHANGED << left, visitVars, mapVars, ctxVars, libVars, execVars, loopVars >>

(* typeInfo.leave(node) of the innermost open node                         *)
LeaveSelection ==
  /\ open # << >>
  /\ typeInfo' = leave(typeInfo, Last(open))
  /\ open' = Front(open)
  /\ UNCHANGED << left, visitVars, mapVars, ctxVars, libVars, execVars, loopVars >>

NextSelections ==
  \/ \E node \in {SelectionSetNode} \cup FieldNodes \cup DirectiveNodes
                   \cup ArgumentNodes : EnterSelection(node)
  \/ LeaveSelection

SpecSelections == InitSelections /\ [][NextSelections]_vars

(* What the field lookup is to give for a parent type and a field name.    *)
MetaOrField(parentType, name) ==
  LET kind == IF Len(parentType) = 1 THEN TypeKind(parentType[1]) ELSE "None"
  IN CASE name = "__schema" /\ parentType = << "Query" >>
            -> SchemaMetaFieldDef
       [] name = "__type" /\ parentType = << "Query" >> -> TypeMetaFieldDef
       [] name = "__typename" /\ kind \in {"Object", "Interface", "Union"}
            -> TypeNameMetaFieldDef
       [] name \notin {"__schema", "__type", "__typename"}
          /\ kind \in {"Object", "Interface"}
            -> getFields(parentType, name)
       [] OTHER -> Undefined

(***************************************************************************)
(* C14.  While a Field is the node entered last, the field definition of   *)
(* TypeInfo is: for __schema and __type the meta field only when the       *)
(* parent type is the query root; for __typename the meta field on every   *)
(* object, interface and union parent; for any other name the entry of the *)
(* parent's field map on object and interface parents; and none otherwise  *)
(* (a union parent, no parent).                                            *)
(***************************************************************************)
C14_FieldLookup ==
  open # << >> /\ Last(open).kind = "Field" =>
    getFieldDef(typeInfo) = MetaOrField(getParentType(typeInfo),
                                        Last(open).name)

(* __typename in the selection set of a union has the meta field.          *)
C14_Witness ==
  /\ open = << SelectionSetNode, FieldNode("__typename") >>
  /\ getParentType(typeInfo) = << "U" >>
  /\ getFieldDef(typeInfo) = TypeNameMetaFieldDef
  /\ getType(typeInfo) = << "NonNull", "String" >>

(* The node around the innermost open node.                                *)
Enclosing == open[Len(open) - 1]

(***************************************************************************)
(* C15.  While an Argument is the node entered last, the argument          *)
(* definition of TypeInfo is the one of that name of the directive being   *)
(* visited when the argument is inside a Directive, and the one of the     *)
(* current field definition otherwise; the argument of a directive is      *)
(* never resolved against the arguments of the enclosing field.            *)
(***************************************************************************)
C15_ArgumentOfDirectiveOrField ==
  Len(open) >= 2 /\ Last(open).kind = "Argument" =>
    typeInfo.argument =
      IF Enclosing.kind = "Directive"
      THEN FindArg(ArgsOf(getDirective(Enclosing.name)), Last(open).name)
      ELSE FindArg(ArgsOf(getFieldDef(typeInfo)), Last(open).name)

(***************************************************************************)
(* The validation rules.  A rule reports through context.reportError,      *)
(* which hands the error to onError; errors collects them in order.        *)
(***************************************************************************)

(* A document has at most MaxDefinitions top-level definitions.            *)
MaxDefinitions == 3

(* new GraphQLError(message, nodes)                                        *)
GraphQLError(message, nodes) == [message |-> message, nodes |-> nodes]

(* context.reportError(error)                                              *)
reportError(reported, error) == Append(reported, error)

(* isExecutableDefinitionNode(node)                                        *)
isExecutableDefinitionNode(node) ==
  node.kind \in {"OperationDefinition", "FragmentDefinition"}

(* The top-level definitions of the documents: an operation, a fragment,   *)
(* a schema definition and extension (which have no name), two type        *)
(* definitions, a directive definition and a type extension.               *)
TopLevelDefinitions ==
  {Definition("OperationDefinition", "query", << >>),
   Definition("FragmentDefinition", "A", << >>),
   Definition("SchemaDefinition", "", << >>),
   Definition("SchemaExtension", "", << >>),
   Definition("ObjectTypeDefinition", "A", << >>),
   Definition("ObjectTypeDefinition", "B", << >>),
   Definition("DirectiveDefinition", "A", << >>),
   Definition("ScalarTypeExtension", "B", << >>)}

DefinitionLists ==
  UNION {[1..n -> TopLevelDefinitions] : n \in 0..MaxDefinitions}

(* defName that quotes the name of every definition.                       *)
defNameQuoted(definition) == "\"" \o definition.name \o "\""

(* const defName = ...                                                     *)
defName(definition) ==
  IF definition.kind = "SchemaDefinition"
     \/ definition.kind = "SchemaExtension"
  THEN "schema"
  ELSE "\"" \o definition.name \o "\""

(* for (const definition of node.definitions): the definition is named by  *)
(* its index in the document.                                              *)
RECURSIVE forDefinitions(_, _, _)
forDefinitions(reported, definitions, i) ==
  IF i > Len(definitions) THEN reported
  ELSE forDefinitions(
         IF ~isExecutableDefinitionNode(definitions[i])
         THEN reportError(reported,
                GraphQLError("The " \o defName(definitions[i])
                               \o " definition is not executable.", i))
         ELSE reported,
         definitions, i + 1)

(* The Document function of the visitor of ExecutableDefinitionsRule.      *)
ExecutableDefinitionsRule(reported, node) ==
  forDefinitions(reported, node.definitions, 1)

InitExecutableDefinitions ==
  /\ typeInfo = NewTypeInfo(Undefined)
  /\ open = << >>
  /\ left = << >>
  /\ IdleVisit
  /\ IdleMap
  /\ IdleLib
  /\ IdleLoops
  /\ IdleExec
  /\ \E definitions \in DefinitionLists :
       context = NewContext([kind |-> "Document",
                             definitions |-> definitions])
  /\ served = FALSE
  /\ errors = << >>
  /\ position = 0

(* The walk enters the Document; the function returns false, so the rule   *)
(* sees no other node.                                                     *)
EnterDocument ==
  /\ position = 0
  /\ errors' = ExecutableDefinitionsRule(errors, context.ast)
  /\ position' = 1
  /\ UNCHANGED << tiVars, visitVars, mapVars, context, served, libVars,
                  execVars, loopVars >>

NextExecutableDefinitions == EnterDocument

SpecExecutableDefinitions ==
  InitExecutableDefinitions /\ [][NextExecutableDefinitions]_vars

(* The indices of the definitions that are neither operations nor          *)
(* fragments, and the j-th of them in document order.                      *)
NotExecutable(definitions) ==
  {i \in 1..Len(definitions) :
     definitions[i].kind \notin {"OperationDefinition", "FragmentDefinition"}}

Nth(indices, j) ==
  CHOOSE i \in indices : Cardinality({k \in indices : k < i}) = j - 1

(***************************************************************************)
(* C16.  Once ExecutableDefinitionsRule has visited the document, the      *)
(* errors are: one for each top-level definition that is neither an        *)
(* operation nor a fragment, in document order, none for the others; the   *)
(* message names a schema definition or extension by the word schema and   *)
(* any other definition by its name in double quotes.                      *)
(***************************************************************************)
C16_OneErrorPerNonExecutable ==
  position = 1 =>
    LET definitions == context.ast.definitions
        bad == NotExecutable(definitions)
    IN /\ Len(errors) = Cardinality(bad)
       /\ \A j \in 1..Len(errors) :
            LET definition == definitions[Nth(bad, j)]
            IN /\ errors[j].nodes = Nth(bad, j)
               /\ errors[j].message =
                    IF definition.kind \in {"SchemaDefinition",
                                            "SchemaExtension"}
                    THEN "The schema definition is not executable."
                    ELSE "The \"" \o definition.name
                           \o "\" definition is not executable."

(* type B, then a fragment, then schema: two errors, in that order.        *)
C16_Witness ==
  /\ position = 1
  /\ Len(context.ast.definitions) = 3
  /\ context.ast.definitions[2].kind = "FragmentDefinition"
  /\ errors = << GraphQLError("The \"B\" definition is not executable.", 1),
                 GraphQLError("The schema definition is not executable.", 3) >>

(***************************************************************************)
(* VariablesAreInputTypesRule, over the variable definitions of one        *)
(* operation.                                                              *)
(***************************************************************************)

(* An operation has at most MaxVariables variable definitions.             *)
MaxVariables == 2

(* print(node) of a type reference: [T] for a list, T! for non-null.       *)
RECURSIVE print(_)
print(typeNode) ==
  IF Len(typeNode) = 1 THEN typeNode[1]
  ELSE IF Head(typeNode) = "List" THEN "[" \o print(Tail(typeNode)) \o "]"
  ELSE print(Tail(typeNode)) \o "!"

(* The type node of variable definition i of the operation.                *)
TypeNodeId(i) == [def |-> 1, variable |-> i, part |-> "type"]

(* The declared types: input types, composite types and names the schema   *)
(* does not know, bare and wrapped.                                        *)
VariableTypes ==
  {<< "Int" >>, << "NonNull", "Inp" >>, << "List", "Kind" >>,
   << "Query" >>, << "List", "NonNull", "Pet" >>, << "NonNull", "List", "U" >>,
   << "Nope" >>, << "List", "Nope" >>}

VariableDefinitionLists ==
  UNION {[1..n -> {VariableDefinition(name, type) :
                     name \in {"x", "y"}, type \in VariableTypes}] :
           n \in 0..MaxVariables}

(* The VariableDefinition function that also reports types the schema does *)
(* not know.                                                               *)
VariablesAreInputTypesRuleUnknown(reported, node, id) ==
  IF ~isInputType(typeFromAST(node.type))
  THEN reportError(reported,
         GraphQLError("Variable \"$" \o node.variable.name
                        \o "\" cannot be non-input type \""
                        \o print(node.type) \o "\".", id))
  ELSE reported

(* The VariableDefinition function of the visitor of                       *)
(* VariablesAreInputTypesRule; id is the node of node.type.                *)
VariablesAreInputTypesRule(reported, node, id) ==
  LET type == typeFromAST(node.type)
  IN IF type # Undefined /\ ~isInputType(type)
     THEN reportError(reported,
            GraphQLError("Variable \"$" \o node.variable.name
                           \o "\" cannot be non-input type \""
                           \o print(node.type) \o "\".", id))
     ELSE reported

InitVariablesAreInputTypes ==
  /\ typeInfo = NewTypeInfo(Undefined)
  /\ open = << >>
  /\ left = << >>
  /\ IdleVisit
  /\ IdleMap
  /\ IdleLib
  /\ IdleLoops
  /\ IdleExec
  /\ \E definitions \in VariableDefinitionLists :
       context = NewValidationContext(
         [kind |-> "Document",
          definitions |->
            << [Definition("OperationDefinition", "query", << >>)
                  EXCEPT !.variableDefinitions = definitions] >>])
  /\ served = FALSE
  /\ errors = << >>
  /\ position = 0

(* The walk enters the next variable definition of the operation.          *)
EnterVariableDefinition ==
  LET definitions == context.ast.definitions[1].variableDefinitions
  IN /\ position < Len(definitions)
     /\ errors' = VariablesAreInputTypesRule(errors, definitions[position + 1],
                                             TypeNodeId(position + 1))
     /\ position' = position + 1
     /\ UNCHANGED << tiVars, visitVars, mapVars, context, served, libVars,
                  execVars, loopVars >>

NextVariablesAreInputTypes == EnterVariableDefinition

SpecVariablesAreInputTypes ==
  InitVariablesAreInputTypes /\ [][NextVariablesAreInputTypes]_vars

(* The variable definitions, among the first n, whose type names a type of *)
(* the schema that is an object, an interface or a union.                  *)
NotInput(definitions, n) ==
  {i \in 1..n :
     TypeKind(Last(definitions[i].type)) \in {"Object", "Interface", "Union"}}

(***************************************************************************)
(* C17.  After the walk has entered variable definitions, the errors of    *)
(* VariablesAreInputTypesRule are: exactly one, located at the type node   *)
(* of the variable, for each definition entered whose declared type names, *)
(* under its list and non-null wrappers, a type of the schema that is not  *)
(* an input type; none for input types nor for unknown type names.  The    *)
(* message quotes the variable, with its $, and the type as written.       *)
(***************************************************************************)
C17_OneErrorPerNonInputVariable ==
  LET definitions == context.ast.definitions[1].variableDefinitions
      bad == NotInput(definitions, position)
  IN /\ Len(errors) = Cardinality(bad)
     /\ \A j \in 1..Len(errors) :
          LET i == Nth(bad, j)
          IN /\ errors[j].nodes = TypeNodeId(i)
             /\ errors[j].message =
                  "Variable \"$" \o definitions[i].variable.name
                    \o "\" cannot be non-input type \""
                    \o print(definitions[i].type) \o "\"."

(* ($x: [Nope], $y: [Pet!]): nothing for the unknown Nope, one error for   *)
(* the interface in a list, at the type node of $y.                        *)
C17_Witness ==
  /\ position = 2
  /\ context.ast.definitions[1].variableDefinitions[1].type
       = << "List", "Nope" >>
  /\ errors =
       << GraphQLError("Variable \"$y\" cannot be non-input type \"[Pet!]\".",
                       TypeNodeId(2)) >>

(***************************************************************************)
(* The built-in scalars (type/scalars).                                    *)
(*                                                                         *)
(* A JavaScript value is a record: its type t and, by type, the boolean b, *)
(* the string s (a sequence of characters) or the number n; an object      *)
(* carries in of the primitive its valueOf() or toJSON() returns (via).    *)
(* A number is a sign and a magnitude hi * 2^16 + lo, so that values       *)
(* beyond 32 bits are exact; q tells integers from numbers with fraction   *)
(* digits f, NaN and the infinities.  Zero has no sign: 0 === -0.          *)
(***************************************************************************)

Limb == 2 ^ 16

Num(neg, hi, lo) ==
  [q |-> "int", neg |-> neg /\ (hi # 0 \/ lo # 0), hi |-> hi, lo |-> lo,
   f |-> << >>]

Frac(neg, hi, lo, f) ==
  [q |-> "frac", neg |-> neg, hi |-> hi, lo |-> lo, f |-> f]

NaN == [q |-> "nan", neg |-> FALSE, hi |-> 0, lo |-> 0, f |-> << >>]

Infinity == [q |-> "inf", neg |-> FALSE, hi |-> 0, lo |-> 0, f |-> << >>]

Small(k) == IF k < 0 THEN Num(TRUE, 0, -k) ELSE Num(FALSE, 0, k)

MAX_INT == Num(FALSE, 32767, 65535)

MIN_INT == Num(TRUE, 32768, 0)

(* a < b and a > b on numbers; false when either is NaN.  The code         *)
(* compares integers and NaN only.                                         *)
MagLess(a, b) == a.hi < b.hi \/ (a.hi = b.hi /\ a.lo < b.lo)

Lt(a, b) ==
  IF a.q = "nan" \/ b.q = "nan" THEN FALSE
  ELSE IF a.neg /\ ~b.neg THEN TRUE
  ELSE IF ~a.neg /\ b.neg THEN FALSE
  ELSE IF a.neg THEN MagLess(b, a)
  ELSE MagLess(a, b)

Gt(a, b) == Lt(b, a)

JSUndefined ==
  [t |-> "undefined", b |-> FALSE, s |-> << >>, n |-> NaN, via |-> "",
   of |-> << >>]

JSNull == [JSUndefined EXCEPT !.t = "null"]

JSBoolean(b) == [JSUndefined EXCEPT !.t = "boolean", !.b = b]

JSString(s) == [JSUndefined EXCEPT !.t = "string", !.s = s]

JSNumber(n) == [JSUndefined EXCEPT !.t = "number", !.n = n]

JSObject(via, of) == [JSUndefined EXCEPT !.t = "object", !.via = via, !.of = of]

(* typeof value                                                            *)
typeof(value) == IF value.t = "null" THEN "object" ELSE value.t

(* isObjectLike(value)                                                     *)
isObjectLike(value) == typeof(value) = "object" /\ value.t # "null"

(* Number.isInteger(value) and Number.isFinite(value)                      *)
isInteger(value) == value.t = "number" /\ value.n.q = "int"

isFinite(value) == value.t = "number" /\ value.n.q \in {"int", "frac"}

(***************************************************************************)
(* Decimal digits: Number(string), parseInt(string, 10) and                *)
(* number.toString() on decimal numerals.                                  *)
(***************************************************************************)

DigitChars == << "0", "1", "2", "3", "4", "5", "6", "7", "8", "9" >>

IsDigit(c) == \E i \in 1..10 : DigitChars[i] = c

DigitOf(c) == (CHOOSE i \in 1..10 : DigitChars[i] = c) - 1

(* The magnitude of a digit sequence, from the magnitude so far.           *)
RECURSIVE DigitsToMag(_, _, _)
DigitsToMag(digits, hi, lo) ==
  IF digits = << >> THEN << hi, lo >>
  ELSE LET sum == lo * 10 + DigitOf(Head(digits))
       IN DigitsToMag(Tail(digits), hi * 10 + sum \div Limb, sum % Limb)

(* The digits of a magnitude.                                              *)
RECURSIVE MagToDigits(_, _)
MagToDigits(hi, lo) ==
  IF hi = 0 /\ lo < 10 THEN << DigitChars[lo + 1] >>
  ELSE LET low == (hi % 10) * Limb + lo
       IN MagToDigits(hi \div 10, low \div 10)
            \o << DigitChars[(low % 10) + 1] >>

(* The longest prefix of digits, and a string without the blanks around.   *)
RECURSIVE DigitPrefix(_)
DigitPrefix(s) ==
  IF s = << >> \/ ~IsDigit(Head(s)) THEN << >>
  ELSE << Head(s) >> \o DigitPrefix(Tail(s))

RECURSIVE TrimStart(_)
TrimStart(s) ==
  IF s # << >> /\ Head(s) = " " THEN TrimStart(Tail(s)) ELSE s

RECURSIVE TrimEnd(_)
TrimEnd(s) ==
  IF s # << >> /\ Last(s) = " " THEN TrimEnd(Front(s)) ELSE s

RECURSIVE DropZeros(_)
DropZeros(f) ==
  IF f # << >> /\ Last(f) = "0" THEN DropZeros(Front(f)) ELSE f

(* Number(string) for decimal numerals: blanks around are dropped, the     *)
(* empty string is 0, a sign, digits and fraction digits give the number,  *)
(* anything else NaN.                                                      *)
Number(s) ==
  LET trimmed == TrimEnd(TrimStart(s))
      signed == trimmed # << >> /\ Head(trimmed) \in {"-", "+"}
      neg == trimmed # << >> /\ Head(trimmed) = "-"
      body == IF signed THEN Tail(trimmed) ELSE trimmed
      whole == DigitPrefix(body)
      rest == SubSeq(body, Len(whole) + 1, Len(body))
      f == IF rest # << >> /\ Head(rest) = "." THEN Tail(rest) ELSE << >>
      mag == DigitsToMag(whole, 0, 0)
  IN IF trimmed = << >> THEN Num(FALSE, 0, 0)
     ELSE IF whole = << >> \/ (rest # << >> /\ Head(rest) # ".")
             \/ DigitPrefix(f) # f
       THEN NaN
     ELSE IF DropZeros(f) = << >> THEN Num(neg, mag[1], mag[2])
     ELSE Frac(neg, mag[1], mag[2], DropZeros(f))

(* parseInt(string, 10): leading blanks and a sign, then the digits up to  *)
(* the first other character; NaN without a digit.                         *)
parseInt(s) ==
  LET trimmed == TrimStart(s)
      signed == trimmed # << >> /\ Head(trimmed) \in {"-", "+"}
      neg == trimmed # << >> /\ Head(trimmed) = "-"
      whole == DigitPrefix(IF signed THEN Tail(trimmed) ELSE trimmed)
      mag == DigitsToMag(whole, 0, 0)
  IN IF whole = << >> THEN NaN ELSE Num(neg, mag[1], mag[2])

(* number.toString() and String(number)                                    *)
toString(n) ==
  CASE n.q = "nan" -> << "N", "a", "N" >>
    [] n.q = "inf" -> << "I", "n", "f", "i", "n", "i", "t", "y" >>
    [] n.q = "int" ->
         (IF n.neg THEN << "-" >> ELSE << >>) \o MagToDigits(n.hi, n.lo)
    [] n.q = "frac" ->
         (IF n.neg THEN << "-" >> ELSE << >>) \o MagToDigits(n.hi, n.lo)
           \o << "." >> \o n.f

(* What a call does: it returns a value or throws a GraphQLError.          *)
Returns(value) == [threw |-> FALSE, value |-> value]

Throws == [threw |-> TRUE, value |-> JSUndefined]

(* serializeObject(outputValue): the primitive an object stands for.       *)
serializeObject(outputValue) ==
  IF isObjectLike(outputValue) /\ outputValue.via \in {"valueOf", "toJSON"}
  THEN outputValue.of[1]
  ELSE outputValue

InRange(num) == ~(Gt(num.n, MAX_INT) \/ Lt(num.n, MIN_INT))

(* serializeInt that hands back the value as it came, unconverted.         *)
serializeIntAsGiven(outputValue) ==
  LET coercedValue == serializeObject(outputValue)
      num == IF typeof(coercedValue) = "string" /\ coercedValue.s # << >>
             THEN JSNumber(Number(coercedValue.s))
             ELSE coercedValue
  IN IF typeof(coercedValue) = "boolean"
     THEN Returns(JSNumber(Small(IF coercedValue.b THEN 1 ELSE 0)))
     ELSE IF typeof(num) # "number" \/ ~isInteger(num) THEN Throws
     ELSE IF ~InRange(num) THEN Throws
     ELSE Returns(coercedValue)

serializeInt(outputValue) ==
  LET coercedValue == serializeObject(outputValue)
      num == IF typeof(coercedValue) = "string" /\ coercedValue.s # << >>
             THEN JSNumber(Number(coercedValue.s))
             ELSE coercedValue
  IN IF typeof(coercedValue) = "boolean"
     THEN Returns(JSNumber(Small(IF coercedValue.b THEN 1 ELSE 0)))
     ELSE IF typeof(num) # "number" \/ ~isInteger(num) THEN Throws
     ELSE IF ~InRange(num) THEN Throws
     ELSE Returns(num)

(* coerceInt that takes numerals in strings as well.                       *)
coerceIntFromString(inputValue) ==
  LET num == IF typeof(inputValue) = "string"
             THEN JSNumber(Number(inputValue.s))
             ELSE inputValue
  IN IF typeof(num) # "number" \/ ~isInteger(num) THEN Throws
     ELSE IF ~InRange(num) THEN Throws
     ELSE Returns(num)

coerceInt(inputValue) ==
  IF typeof(inputValue) # "number" \/ ~isInteger(inputValue) THEN Throws
  ELSE IF ~InRange(inputValue) THEN Throws
  ELSE Returns(inputValue)

(* GraphQLInt.parseLiteral(valueNode)                                      *)
parseLiteralInt(valueNode) ==
  IF valueNode.kind # "IntValue" THEN Throws
  ELSE LET num == JSNumber(parseInt(valueNode.value.s))
       IN IF ~InRange(num) THEN Throws ELSE Returns(num)

serializeString(outputValue) ==
  LET coercedValue == serializeObject(outputValue)
  IN IF typeof(coercedValue) = "string" THEN Returns(coercedValue)
     ELSE IF typeof(coercedValue) = "boolean"
       THEN Returns(JSString(IF coercedValue.b
                             THEN << "t", "r", "u", "e" >>
                             ELSE << "f", "a", "l", "s", "e" >>))
     ELSE IF typeof(coercedValue) = "number" /\ isFinite(coercedValue)
       THEN Returns(JSString(toString(coercedValue.n)))
     ELSE Throws

coerceString(inputValue) ==
  IF typeof(inputValue) # "string" THEN Throws ELSE Returns(inputValue)

(* GraphQLString.parseLiteral(valueNode)                                   *)
parseLiteralString(valueNode) ==
  IF valueNode.kind # "StringValue" THEN Throws
  ELSE Returns(valueNode.value)

serializeBoolean(outputValue) ==
  LET coercedValue == serializeObject(outputValue)
  IN IF typeof(coercedValue) = "boolean" THEN Returns(coercedValue)
     ELSE IF isFinite(coercedValue)
       THEN Returns(JSBoolean(coercedValue.n # Small(0)))
     ELSE Throws

coerceBoolean(inputValue) ==
  IF typeof(inputValue) # "boolean" THEN Throws ELSE Returns(inputValue)

(* GraphQLBoolean.parseLiteral(valueNode)                                  *)
parseLiteralBoolean(valueNode) ==
  IF valueNode.kind # "BooleanValue" THEN Throws
  ELSE Returns(valueNode.value)

serializeID(outputValue) ==
  LET coercedValue == serializeObject(outputValue)
  IN IF typeof(coercedValue) = "string" THEN Returns(coercedValue)
     ELSE IF isInteger(coercedValue)
       THEN Returns(JSString(toString(coercedValue.n)))
     ELSE Throws

coerceID(inputValue) ==
  IF typeof(inputValue) = "string" THEN Returns(inputValue)
  ELSE IF typeof(inputValue) = "number" /\ isInteger(inputValue)
    THEN Returns(JSString(toString(inputValue.n)))
  ELSE Throws

(* GraphQLID.parseLiteral(valueNode)                                       *)
parseLiteralID(valueNode) ==
  IF valueNode.kind # "StringValue" /\ valueNode.kind # "IntValue"
  THEN Throws
  ELSE Returns(valueNode.value)

(* The three functions of the scalar type of a name.                       *)
serialize(type, outputValue) ==
  CASE type = "Int" -> serializeInt(outputValue)
    [] type = "String" -> serializeString(outputValue)
    [] type = "Boolean" -> serializeBoolean(outputValue)
    [] type = "ID" -> serializeID(outputValue)

parseValue(type, inputValue) ==
  CASE type = "Int" -> coerceInt(inputValue)
    [] type = "String" -> coerceString(inputValue)
    [] type = "Boolean" -> coerceBoolean(inputValue)
    [] type = "ID" -> coerceID(inputValue)

parseLiteral(type, valueNode) ==
  CASE type = "Int" -> parseLiteralInt(valueNode)
    [] type = "String" -> parseLiteralString(valueNode)
    [] type = "Boolean" -> parseLiteralBoolean(valueNode)
    [] type = "ID" -> parseLiteralID(valueNode)

ScalarNames == {"Int", "String", "Boolean", "ID"}

(***************************************************************************)
(* The values and literals the functions are called with.                  *)
(***************************************************************************)

Numbers ==
  {Small(0), Small(1), Small(-1), Small(7), MAX_INT, MIN_INT,
   Num(FALSE, 32768, 0), Num(TRUE, 32768, 1),
   Frac(FALSE, 0, 1, << "5" >>), NaN, Infinity}

Strings ==
  {<< >>, << " " >>, << "a", "b", "c" >>, << "7" >>, << "0", "0", "7" >>,
   << "-", "1" >>, << "1", ".", "5" >>, << "7", ".", "0" >>,
   << "t", "r", "u", "e" >>,
   << "2", "1", "4", "7", "4", "8", "3", "6", "4", "7" >>,
   << "2", "1", "4", "7", "4", "8", "3", "6", "4", "8" >>,
   << "-", "2", "1", "4", "7", "4", "8", "3", "6", "4", "8" >>,
   << "-", "2", "1", "4", "7", "4", "8", "3", "6", "4", "9" >>}

Primitives ==
  {JSUndefined, JSNull, JSBoolean(TRUE), JSBoolean(FALSE)}
    \cup {JSNumber(n) : n \in Numbers}
    \cup {JSString(s) : s \in Strings}

(* Objects: a plain one, boxed numbers and strings (valueOf), and objects  *)
(* with a toJSON.                                                          *)
Objects ==
  {JSObject("none", << >>),
   JSObject("valueOf", << JSNumber(Small(7)) >>),
   JSObject("valueOf", << JSNumber(Num(FALSE, 32768, 0)) >>),
   JSObject("valueOf", << JSString(<< "a", "b", "c" >>) >>),
   JSObject("toJSON", << JSString(<< "7" >>) >>),
   JSObject("toJSON", << JSBoolean(TRUE) >>)}

RuntimeValues == Primitives \cup Objects

ValueNode(kind, value) == [kind |-> kind, value |-> value]

(* Literals as the parser builds them, and IntValue nodes built by hand    *)
(* whose value is no integer numeral.                                      *)
ValueNodes ==
  {ValueNode("IntValue", JSString(s)) :
     s \in {<< "7" >>, << "0" >>, << "-", "1" >>,
            << "2", "1", "4", "7", "4", "8", "3", "6", "4", "7" >>,
            << "2", "1", "4", "7", "4", "8", "3", "6", "4", "8" >>,
            << "-", "2", "1", "4", "7", "4", "8", "3", "6", "4", "8" >>,
            << "-", "2", "1", "4", "7", "4", "8", "3", "6", "4", "9" >>,
            << "a", "b", "c" >>, << >>}}
    \cup {ValueNode("FloatValue", JSString(<< "1", ".", "5" >>)),
          ValueNode("StringValue", JSString(<< "a", "b", "c" >>)),
          ValueNode("StringValue", JSString(<< "7" >>)),
          ValueNode("BooleanValue", JSBoolean(TRUE)),
          ValueNode("BooleanValue", JSBoolean(FALSE)),
          ValueNode("NullValue", JSUndefined),
          ValueNode("EnumValue", JSString(<< "a", "b", "c" >>))}

(* A call made, with its outcome.                                          *)
ScalarCall(fn, type, arg, outcome) ==
  [fn |-> fn, type |-> type, arg |-> arg, outcome |-> outcome]

InitScalars ==
  /\ typeInfo = NewTypeInfo(Undefined)
  /\ open = << >>
  /\ left = << >>
  /\ IdleVisit
  /\ IdleMap
  /\ IdleCtx
  /\ input \in RuntimeValues \cup ValueNodes
  /\ returned = << >>
  /\ cache0 = << >>
  /\ invoked = << >>
  /\ IdleExec
  /\ IdleLoops

(* type.parseValue(value), of the input or of what serialize of the same   *)
(* type has returned.                                                      *)
ParseValue(type) ==
  /\ input \in RuntimeValues
  /\ \/ returned = << >>
     \/ /\ Len(returned) = 1
        /\ returned[1].fn = "serialize"
        /\ returned[1].type = type
        /\ ~returned[1].outcome.threw
  /\ LET arg == IF returned = << >> THEN input
                ELSE returned[1].outcome.value
     IN returned' =
          Append(returned,
                 ScalarCall("parseValue", type, arg, parseValue(type, arg)))
  /\ UNCHANGED << tiVars, visitVars, mapVars, ctxVars, input, cache0, invoked,
             execVars, loopVars >>

(* type.parseLiteral(input)                                                *)
ParseLiteral(type) ==
  /\ returned = << >>
  /\ input \in ValueNodes
  /\ returned' =
       << ScalarCall("parseLiteral", type, input, parseLiteral(type, input)) >>
  /\ UNCHANGED << tiVars, visitVars, mapVars, ctxVars, input, cache0, invoked,
             execVars, loopVars >>

(* type.serialize(value), of the input or of what parseValue of the same   *)
(* type has returned.                                                      *)
Serialize(type) ==
  /\ input \in RuntimeValues
  /\ \/ returned = << >>
     \/ /\ Len(returned) = 1
        /\ returned[1].fn = "parseValue"
        /\ returned[1].type = type
        /\ ~returned[1].outcome.threw
  /\ LET arg == IF returned = << >> THEN input
                ELSE returned[1].outcome.value
     IN returned' =
          Append(returned,
                 ScalarCall("serialize", type, arg, serialize(type, arg)))
  /\ UNCHANGED << tiVars, visitVars, mapVars, ctxVars, input, cache0, invoked,
             execVars, loopVars >>

NextScalars ==
  \E type \in ScalarNames :
    \/ ParseValue(type)
    \/ ParseLiteral(type)
    \/ Serialize(type)

SpecScalars == InitScalars /\ [][NextScalars]_vars

(* A round trip has been made: parseValue accepted the input and serialize *)
(* was called with what it returned.                                       *)
RoundTrip ==
  /\ Len(returned) = 2
  /\ returned[1].fn = "parseValue"
  /\ returned[2].fn = "serialize"

(***************************************************************************)
(* C18, as stated.  For Int, String, Boolean and ID and every value x that *)
(* parseValue accepts, serialize(parseValue(x)) returns x.                 *)
(***************************************************************************)
C18_RoundTrip ==
  RoundTrip =>
    /\ ~returned[2].outcome.threw
    /\ returned[2].outcome.value = input

(***************************************************************************)
(* C18, amended.  For Int, String and Boolean, and for ID when x is a      *)
(* string, serialize(parseValue(x)) returns x; for ID and an integer x it  *)
(* returns the string that is the decimal numeral of x.                    *)
(***************************************************************************)
C18_RoundTripButIDOfNumber ==
  RoundTrip =>
    /\ ~returned[2].outcome.threw
    /\ IF returned[1].type = "ID" /\ typeof(input) = "number"
       THEN /\ typeof(returned[2].outcome.value) = "string"
            /\ Number(returned[2].outcome.value.s) = input.n
       ELSE returned[2].outcome.value = input

(* Int: the round trip of -2147483648.                                     *)
C18_Witness ==
  /\ RoundTrip
  /\ returned[1].type = "Int"
  /\ input = JSNumber(MIN_INT)
  /\ returned[2].outcome = Returns(JSNumber(MIN_INT))

(* ID: the round trip of the number -1 ends in the string "-1".            *)
C18_WitnessID ==
  /\ RoundTrip
  /\ returned[1].type = "ID"
  /\ input = JSNumber(Small(-1))
  /\ returned[2].outcome = Returns(JSString(<< "-", "1" >>))

(* An integer of 32 bits with a sign.                                      *)
IsInt32(value) ==
  /\ value.t = "number"
  /\ value.n.q = "int"
  /\ IF value.n.neg
     THEN value.n.hi < 32768 \/ (value.n.hi = 32768 /\ value.n.lo = 0)
     ELSE value.n.hi < 32768

MaxCalls == 3

Identities == {"o1", "o2"}

Results == {"undefined", "r1", "r2"}

(* new WeakMap()                                                           *)
NewWeakMap == [key \in {} |-> << >>]

(* weakMap.get(key) on a map of maps: the map, as an optional.             *)
GetMap(weakMap, key) ==
  IF key \in DOMAIN weakMap THEN << weakMap[key] >> ELSE << >>

(* weakMap.get(key) on a map of values: undefined without an entry.        *)
GetValue(weakMap, key) ==
  IF key \in DOMAIN weakMap THEN weakMap[key] ELSE "undefined"

(* weakMap.set(key, value)                                                 *)
SetEntry(weakMap, key, value) ==
  [k \in DOMAIN weakMap \cup {key} |->
     IF k = key THEN value ELSE weakMap[k]]

(* memoized(a1, a2, a3) when fn, if it is invoked, returns newValue: the   *)
(* cache afterwards, whether fn was invoked, and the value returned.       *)
memoized(cache, a1, a2, a3, newValue) ==
  LET c0 == IF cache = << >> THEN NewWeakMap ELSE cache[1]
      found1 == GetMap(c0, a1)
      found2 == IF found1 # << >> THEN GetMap(found1[1], a2) ELSE << >>
      cachedValue == IF found2 # << >> THEN GetValue(found2[1], a3)
                     ELSE "undefined"
      cache1 == IF found1 # << >> THEN found1[1] ELSE NewWeakMap
      cache2 == IF found2 # << >> THEN found2[1] ELSE NewWeakMap
  IN IF found2 # << >> /\ cachedValue # "undefined"
     THEN [cache0 |-> << c0 >>, invoked |-> FALSE, value |-> cachedValue]
     ELSE [cache0 |->
             << SetEntry(c0, a1,
                  SetEntry(cache1, a2, SetEntry(cache2, a3, newValue))) >>,
           invoked |-> TRUE,
           value |-> newValue]

InitMemoize ==
  /\ typeInfo = NewTypeInfo(Undefined)
  /\ open = << >>
  /\ left = << >>
  /\ IdleVisit
  /\ IdleMap
  /\ IdleCtx
  /\ input = << >>
  /\ returned = << >>
  /\ cache0 = << >>
  /\ invoked = << >>
  /\ IdleExec
  /\ IdleLoops

(* A call memoized(a1, a2, a3).                                            *)
Memoized(a1, a2, a3) ==
  /\ Len(returned) < MaxCalls
  /\ \E newValue \in Results :
       LET call == memoized(cache0, a1, a2, a3, newValue)
       IN /\ cache0' = call.cache0
          /\ invoked' = IF call.invoked
                        THEN Append(invoked, << a1, a2, a3 >>)
                        ELSE invoked
          /\ returned' = Append(returned, [args |-> << a1, a2, a3 >>,
                                           invoked |-> call.invoked,
                                           value |-> call.value])
  /\ UNCHANGED << tiVars, visitVars, mapVars, ctxVars, input, execVars, loopVars >>

NextMemoize == \E a1, a2, a3 \in Identities : Memoized(a1, a2, a3)

SpecMemoize == InitMemoize /\ [][NextMemoize]_vars

(***************************************************************************)
(* C20.  Over any sequence of calls of memoize3(fn): fn is invoked at most *)
(* once for each triple of arguments; a later call with a triple returns   *)
(* what the first call with it returned; and a call that does not invoke   *)
(* fn returns the value of an earlier call with the same three arguments,  *)
(* never one cached for a triple that differs in an argument.              *)
(***************************************************************************)
C20_InvokedOncePerTriple ==
  /\ \A i, j \in 1..Len(invoked) : invoked[i] = invoked[j] => i = j
  /\ \A i, j \in 1..Len(returned) :
       i < j /\ returned[i].args = returned[j].args =>
         returned[j].value = returned[i].value
  /\ \A j \in 1..Len(returned) :
       ~returned[j].invoked =>
         \E i \in 1..(j - 1) :
           /\ returned[i].args = returned[j].args
           /\ returned[i].value = returned[j].value


(***************************************************************************)
(* utilities/concatAST.ts: concatAST(documents).                           *)
(***************************************************************************)
MaxDocuments == 2

MaxDocDefinitions == 2

(* The definitions the documents to concatenate are made of.               *)
ConcatDefinitions ==
  {Definition("OperationDefinition", "query", << >>),
   Definition("FragmentDefinition", "A", << >>),
   Definition("ObjectTypeDefinition", "B", << >>)}

ConcatDocuments ==
  {[kind |-> "Document", definitions |-> definitions] :
     definitions \in
       UNION {[1..n -> ConcatDefinitions] : n \in 0..MaxDocDefinitions}}

ConcatInputs == UNION {[1..n -> ConcatDocuments] : n \in 0..MaxDocuments}

(* array.concat(items): a new array, array and items are not modified.     *)
ArrayConcat(array, items) == array \o items

(* definitions = doc.definitions.concat(definitions)                       *)
concatASTStepPrepend(loop, doc) ==
  [documents |-> loop.documents,
   definitions |-> ArrayConcat(doc.definitions, loop.definitions)]

(* definitions = definitions.concat(doc.definitions)                       *)
concatASTStep(loop, doc) ==
  [documents |-> loop.documents,
   definitions |-> ArrayConcat(loop.definitions, doc.definitions)]

(* for (const doc of documents) { ... }, from the i-th document on         *)
RECURSIVE concatASTLoop(_, _)
concatASTLoop(loop, i) ==
  IF i > Len(loop.documents) THEN loop
  ELSE concatASTLoop(concatASTStep(loop, loop.documents[i]), i + 1)

(* concatAST(documents): the documents after the call and the value        *)
(* returned.                                                               *)
concatAST(documents) ==
  LET loop == concatASTLoop([documents |-> documents,
                             definitions |-> << >>], 1)
  IN [documents |-> loop.documents,
      value |-> [kind |-> "Document", definitions |-> loop.definitions]]

InitConcat ==
  /\ typeInfo = NewTypeInfo(Undefined)
  /\ open = << >>
  /\ left = << >>
  /\ IdleVisit
  /\ IdleMap
  /\ IdleCtx
  /\ input \in ConcatInputs
  /\ returned = << >>
  /\ cache0 = << >>
  /\ invoked = << >>
  /\ IdleExec
  /\ IdleLoops

(* A call concatAST(documents); invoked keeps the documents as they were   *)
(* handed in.                                                              *)
CallConcatAST ==
  /\ returned = << >>
  /\ LET call == concatAST(input)
     IN /\ input' = call.documents
        /\ returned' = << call.value >>
        /\ invoked' = input
  /\ UNCHANGED << tiVars, visitVars, mapVars, ctxVars, cache0, execVars, loopVars >>

NextConcat == CallConcatAST

SpecConcat == InitConcat /\ [][NextConcat]_vars

(* The definitions of the documents from the i-th on, in order.            *)
RECURSIVE DefinitionsFrom(_, _)
DefinitionsFrom(documents, i) ==
  IF i > Len(documents) THEN << >>
  ELSE documents[i].definitions \o DefinitionsFrom(documents, i + 1)

RECURSIVE SumOfLengths(_, _)
SumOfLengths(documents, i) ==
  IF i > Len(documents) THEN 0
  ELSE Len(documents[i].definitions) + SumOfLengths(documents, i + 1)

(***************************************************************************)
(* C21.  concatAST(documents) returns a Document whose definitions are the *)
(* definitions of the input documents concatenated in input order, each    *)
(* document's own order kept and the length the sum of the inputs'         *)
(* lengths, and it leaves the input documents unchanged.                   *)
(***************************************************************************)
C21_ConcatInOrder ==
  returned # << >> =>
    /\ returned[1].kind = "Document"
    /\ returned[1].definitions = DefinitionsFrom(invoked, 1)
    /\ Len(returned[1].definitions) = SumOfLengths(invoked, 1)
    /\ input = invoked

(* Two documents of two definitions each, not all alike, concatenated.     *)
C21_Witness ==
  /\ returned # << >>
  /\ Len(invoked) = 2
  /\ Len(invoked[1].definitions) = 2
  /\ Len(invoked[2].definitions) = 2
  /\ invoked[1] # invoked[2]
  /\ invoked[1].definitions[1] # invoked[1].definitions[2]
  /\ Len(returned[1].definitions) = 4


(***************************************************************************)
(* execution/execute: execute(args).  The executor is not among the        *)
(* sources; it is modelled after sections 4.7, 5 and 6 of the              *)
(* specification.  A root field is a response key with the nullability of  *)
(* its type, the number of promise-likes its completion waits for one      *)
(* after the other (0: the resolver and the completion are synchronous),   *)
(* and whether its completion fails (an error, or null for a non-null      *)
(* type).                                                                  *)
(***************************************************************************)
MaxRootFields == 2

MaxStages == 2

OperationTypes == {"query", "mutation", "subscription"}

(* What makes buildExecutionContext or the root type lookup fail.          *)
Failures == {"none", "variables", "operation", "rootType"}

ResponseKey(i) == << "a", "b", "c", "d" >>[i]

RootField(i, nonNull, stages, fails) ==
  [key |-> ResponseKey(i), nonNull |-> nonNull, stages |-> stages,
   fails |-> fails]

RootFieldLists ==
  UNION {{[i \in 1..n |-> RootField(i, plan[i][1], plan[i][2], plan[i][3])] :
            plan \in [1..n -> BOOLEAN \X (0..MaxStages) \X BOOLEAN]} :
         n \in 0..MaxRootFields}

(* A located error at the path of a root field.                            *)
locatedError(field) ==
  [message |-> IF field.nonNull THEN "Cannot return null for non-nullable field."
               ELSE "field error",
   path |-> << field.key >>]

(* results[responseName] = value, were the key moved to the end.           *)
SetResultLast(results, key, value) ==
  Append(SelectSeq(results, LAMBDA entry : entry.key # key),
         [key |-> key, value |-> value])

(* results[responseName] = value: a new key goes last, a key the mapping   *)
(* has keeps its place.                                                    *)
SetResult(results, key, value) ==
  IF \E j \in 1..Len(results) : results[j].key = key
  THEN [j \in 1..Len(results) |->
          IF results[j].key = key THEN [key |-> key, value |-> value]
          ELSE results[j]]
  ELSE Append(results, [key |-> key, value |-> value])

(* The response with its errors entry always present.                      *)
buildResponseWithErrors(reported, data) ==
  [hasErrors |-> TRUE, errors |-> reported, hasData |-> TRUE, data |-> data]

(* buildResponse: { data } without errors, { errors, data } with them;     *)
(* data is << >> for null and << mapping >> otherwise.                     *)
buildResponse(reported, data) ==
  IF reported = << >>
  THEN [hasErrors |-> FALSE, errors |-> << >>, hasData |-> TRUE,
        data |-> data]
  ELSE [hasErrors |-> TRUE, errors |-> reported, hasData |-> TRUE,
        data |-> data]

(* { errors }: the response of an execution that failed before any field   *)
(* was executed.                                                           *)
earlyResponse(reported) ==
  [hasErrors |-> TRUE, errors |-> reported, hasData |-> FALSE,
   data |-> << >>]

(* The state of an execution: the error buffer, the results mapping, the   *)
(* promise-likes each field still waits for, the resolver calls so far     *)
(* (each with the promise-likes outstanding and the number of settlements  *)
(* when it was made), the fields in the order their completion settled,    *)
(* and the failure that has reached the root.                              *)
NewExecution(fields) ==
  [errors |-> << >>, results |-> << >>,
   left |-> [i \in 1..Len(fields) |-> 0],
   calls |-> << >>, settles |-> 0, order |-> << >>, thrown |-> << >>]

(* The resolver of field i is called.                                      *)
callResolver(st, i) ==
  [st EXCEPT !.calls = Append(@, [field |-> i, left |-> st.left,
                                  settles |-> st.settles])]

(* The completion of field i is at hand: its value enters the mapping, a   *)
(* failure of a nullable field is recorded and gives null, a failure of a  *)
(* non-null field is thrown to the root.                                   *)
completeField(st, fields, i) ==
  IF ~fields[i].fails
  THEN [st EXCEPT !.results = SetResult(@, fields[i].key, "value")]
  ELSE IF ~fields[i].nonNull
  THEN [st EXCEPT !.results = SetResult(@, fields[i].key, "null"),
                  !.errors = Append(@, locatedError(fields[i]))]
  ELSE [st EXCEPT !.thrown = IF @ = << >> THEN << locatedError(fields[i]) >>
                             ELSE @]

(* resolveField for a root field executed in parallel: the resolver is     *)
(* called; a promise-like takes the key's place in the mapping.            *)
resolveField(st, fields, i) ==
  LET called == callResolver(st, i)
  IN IF fields[i].stages > 0
     THEN [called EXCEPT !.results = SetResult(@, fields[i].key, "promise"),
                         !.left[i] = fields[i].stages]
     ELSE completeField(called, fields, i)

(* executeFields: every field in turn, none waited for.                    *)
RECURSIVE executeFields(_, _, _)
executeFields(st, fields, i) ==
  IF i > Len(fields) \/ st.thrown # << >> THEN st
  ELSE Bind(resolveField(st, fields, i),
            LAMBDA next : executeFields(next, fields, i + 1))

(* resolveField for a root field executed serially: the key enters the     *)
(* mapping when the value is there.                                        *)
resolveFieldSerially(st, fields, i) ==
  LET called == callResolver(st, i)
  IN IF fields[i].stages > 0
     THEN [called EXCEPT !.left[i] = fields[i].stages]
     ELSE completeField(called, fields, i)

(* isPromise(value) that finds no promise-like.                            *)
isPromiseNever(value) == FALSE

(* isPromise(value): whether value.then is a function.                     *)
isPromise(value) == value = "promise"

(* What resolveField has returned for field i.                             *)
FieldResult(st, i) == IF st.left[i] > 0 THEN "promise" ELSE "value"

(* executeFieldsSerially from field i on, until a field returns a          *)
(* promise-like or fails for the root.                                     *)
RECURSIVE executeFieldsSerially(_, _, _)
executeFieldsSerially(st, fields, i) ==
  IF i > Len(fields) \/ st.thrown # << >> THEN st
  ELSE Bind(resolveFieldSerially(st, fields, i),
            LAMBDA next : IF isPromise(FieldResult(next, i)) THEN next
                          ELSE executeFieldsSerially(next, fields, i + 1))

Pending(st) == {i \in 1..Len(st.left) : st.left[i] > 0}

(* executeOperation: mutation roots serially, query and subscription       *)
(* roots in parallel.                                                      *)
executeOperation(operation, st, fields) ==
  IF operation = "mutation" THEN executeFieldsSerially(st, fields, 1)
  ELSE executeFields(st, fields, 1)

(* What execute makes of the state a step leaves: nothing more once there  *)
(* is a response; a failure that reached the root is recorded and data is  *)
(* null; with every field resolved and nothing outstanding data is the     *)
(* mapping.                                                                *)
respond(st, fields, given) ==
  IF given # << >> THEN [st |-> st, response |-> given]
  ELSE IF st.thrown # << >>
  THEN LET reported == Append(st.errors, st.thrown[1])
       IN [st |-> [st EXCEPT !.errors = reported],
           response |-> << buildResponse(reported, << >>) >>]
  ELSE IF Pending(st) = {} /\ Len(st.calls) = Len(fields)
  THEN [st |-> st,
        response |-> << buildResponse(st.errors, << st.results >>) >>]
  ELSE [st |-> st, response |-> << >>]

(* The state the operators work on, of the two variables.                  *)
ExecutionState ==
  [errors |-> exeContext.errors, results |-> execution.results,
   left |-> execution.left, calls |-> execution.calls,
   settles |-> execution.settles, order |-> execution.order,
   thrown |-> execution.thrown]

Becomes(after) ==
  /\ exeContext' = [exeContext EXCEPT !.errors = after.st.errors]
  /\ execution' = [started |-> TRUE, results |-> after.st.results,
                   left |-> after.st.left, calls |-> after.st.calls,
                   settles |-> after.st.settles, order |-> after.st.order,
                   thrown |-> after.st.thrown]
  /\ response' = after.response

InitExecute ==
  /\ typeInfo = NewTypeInfo(Undefined)
  /\ open = << >>
  /\ left = << >>
  /\ IdleVisit
  /\ IdleMap
  /\ IdleCtx
  /\ IdleLib
  /\ IdleLoops
  /\ \E operation \in OperationTypes, failure \in Failures,
        fields \in RootFieldLists :
       /\ exeContext = [operation |-> operation, failure |-> failure,
                        fields |-> fields, errors |-> << >>]
       /\ execution = [started |-> FALSE] @@ NewExecution(fields)
  /\ response = << >>

(* execute(args), up to the first promise-like it has to wait for.         *)
Execute ==
  /\ ~execution.started
  /\ IF exeContext.failure # "none"
     THEN /\ response' =
               << earlyResponse(<< [message |-> exeContext.failure,
                                    path |-> << >>] >>) >>
          /\ execution' = [execution EXCEPT !.started = TRUE]
          /\ UNCHANGED exeContext
     ELSE Becomes(Bind(executeOperation(exeContext.operation, ExecutionState,
                                        exeContext.fields),
                       LAMBDA st : respond(st, exeContext.fields, << >>)))
  /\ UNCHANGED << tiVars, visitVars, mapVars, ctxVars, libVars, loopVars >>

(* A promise-like the completion of root field i waits for settles; with   *)
(* the last one the field is completed, and a serial execution goes on     *)
(* with the fields after it.                                               *)
Settle_(i) ==
  /\ execution.started
  /\ i \in Pending(execution)
  /\ LET fields == exeContext.fields
         awaited == [ExecutionState EXCEPT !.left[i] = @ - 1,
                                           !.settles = @ + 1]
         completed ==
           IF awaited.left[i] > 0 THEN awaited
           ELSE completeField([awaited EXCEPT !.order = Append(@, i)],
                              fields, i)
         after ==
           IF awaited.left[i] = 0 /\ exeContext.operation = "mutation"
           THEN executeFieldsSerially(completed, fields, i + 1)
           ELSE completed
     IN Becomes(Bind(after, LAMBDA st : respond(st, fields, response)))
  /\ UNCHANGED << tiVars, visitVars, mapVars, ctxVars, libVars, loopVars >>

NextExecute ==
  \/ Execute
  \/ \E i \in 1..MaxRootFields : Settle_(i)

SpecExecute == InitExecute /\ [][NextExecute]_vars


(* The promise-likes the completions of the fields before the c-th wait    *)
(* for.                                                                    *)
RECURSIVE StagesBefore(_, _)
StagesBefore(fields, c) ==
  IF c <= 1 THEN 0
  ELSE fields[c - 1].stages + StagesBefore(fields, c - 1)

KeysOf(entries) == [j \in 1..Len(entries) |-> entries[j].key]

(***************************************************************************)
(* C22.  Serial mutation law: in a mutation the resolvers of the root      *)
(* fields are called in response-key order, and the resolver of a field is *)
(* called only when every promise-like the completion of the fields before *)
(* it waits for has settled, so that none is outstanding at the call.      *)
(***************************************************************************)
C22_SerialMutation ==
  exeContext.operation = "mutation" =>
    \A c \in 1..Len(execution.calls) :
      /\ execution.calls[c].field = c
      /\ \A j \in 1..Len(exeContext.fields) : execution.calls[c].left[j] = 0
      /\ execution.calls[c].settles = StagesBefore(exeContext.fields, c)

(* A mutation of two root fields, the first completed through two          *)
(* promise-likes, has called both resolvers and has its response.          *)
C22_Witness ==
  /\ exeContext.operation = "mutation"
  /\ Len(exeContext.fields) = 2
  /\ exeContext.fields[1].stages = 2
  /\ exeContext.fields[2].stages = 1
  /\ Len(execution.calls) = 2
  /\ response # << >>
  /\ response[1].data # << >>

C25_ResultShape ==
  response # << >> =>
    /\ response[1].hasErrors <=>
         (exeContext.failure # "none" \/ exeContext.errors # << >>)
    /\ response[1].hasErrors <=> response[1].errors # << >>
    /\ ~response[1].hasData <=> exeContext.failure # "none"
    /\ response[1].hasData =>
         (response[1].data = << >> <=> execution.thrown # << >>)

(* A response of two root fields whose data is null, with its errors.      *)
C25_Witness ==
  /\ response # << >>
  /\ response[1].hasData
  /\ response[1].data = << >>
  /\ response[1].hasErrors
  /\ Len(exeContext.fields) = 2


(***************************************************************************)
(* execution/execute: completeValue and the handling of field errors,      *)
(* after section 4.7 of the specification.  The selection is a path of     *)
(* fields f, each the only object-typed field of the one before it, down   *)
(* to a leaf; at each level a leaf sibling s may be selected before f.     *)
(* Values are [t, entries]: null, a leaf value, or an object with its      *)
(* entries in order.                                                       *)
(***************************************************************************)
MaxPath == 3

Outcomes == {"value", "null", "error"}

Siblings == {"none", "value", "error"}

(* The levels of a path: the nullability of f's type and the sibling.      *)
Paths ==
  UNION {[1..d -> [nonNull : BOOLEAN, sibling : Siblings]] :
           d \in 1..MaxPath}

NullValue == [t |-> "null", entries |-> << >>]

LeafValue == [t |-> "leaf", entries |-> << >>]

ObjectValue(entries) == [t |-> "object", entries |-> entries]

(* A located error: the field it is about and the level of its path.       *)
FieldError(key, level, message) ==
  [key |-> key, level |-> level, message |-> message]

Completed(reported, value) ==
  [errors |-> reported, value |-> value, thrown |-> << >>]

Raised(reported, error) ==
  [errors |-> reported, value |-> NullValue, thrown |-> << error >>]

(* handleFieldError that records the error of a non-null field as well.    *)
handleFieldErrorRecording(reported, nonNull, error) ==
  IF nonNull THEN Raised(Append(reported, error), error)
  ELSE Completed(Append(reported, error), NullValue)

(* handleFieldError: the error of a non-null field is thrown on, that of a *)
(* nullable field is recorded and the field is null.                       *)
handleFieldError(reported, nonNull, error) ==
  IF nonNull THEN Raised(reported, error)
  ELSE Completed(Append(reported, error), NullValue)

(* The sibling s at a level: a nullable leaf that has a value or fails.    *)
executeSibling(reported, sibling, level) ==
  IF sibling = "none" THEN [errors |-> reported, entries |-> << >>]
  ELSE IF sibling = "value"
  THEN [errors |-> reported,
        entries |-> << [key |-> "s", value |-> LeafValue] >>]
  ELSE [errors |-> Append(reported, FieldError("s", level, "field error")),
        entries |-> << [key |-> "s", value |-> NullValue] >>]

RECURSIVE completeValue(_, _, _, _)
RECURSIVE executeField(_, _, _, _)
RECURSIVE executeSubfields(_, _, _, _)

(* completeValue for f at a level, without the non-null wrapper of its     *)
(* type: the leaf's outcome at the last level, an object of the fields of  *)
(* the next level before it.                                               *)
completeInner(reported, path, outcome, level) ==
  IF level = Len(path)
  THEN IF outcome = "value" THEN Completed(reported, LeafValue)
       ELSE IF outcome = "null" THEN Completed(reported, NullValue)
       ELSE Raised(reported, FieldError("f", level, "field error"))
  ELSE executeSubfields(reported, path, outcome, level + 1)

(* completeValue: null for a non-null type is an error.                    *)
completeValue(reported, path, outcome, level) ==
  Bind(completeInner(reported, path, outcome, level),
       LAMBDA inner :
         IF path[level].nonNull /\ inner.thrown = << >>
            /\ inner.value = NullValue
         THEN Raised(inner.errors,
                     FieldError("f", level,
                                "Cannot return null for non-nullable field."))
         ELSE inner)

(* The field f at a level: resolved, completed, and its error handled.     *)
executeField(reported, path, outcome, level) ==
  Bind(completeValue(reported, path, outcome, level),
       LAMBDA completed :
         IF completed.thrown = << >> THEN completed
         ELSE handleFieldError(completed.errors, path[level].nonNull,
                               completed.thrown[1]))

(* executeFields for the selection set of a level: s, then f; an error     *)
(* thrown by a field is thrown by the whole.                               *)
executeSubfields(reported, path, outcome, level) ==
  Bind(executeSibling(reported, path[level].sibling, level),
       LAMBDA first :
         Bind(executeField(first.errors, path, outcome, level),
              LAMBDA second :
                IF second.thrown # << >> THEN second
                ELSE Completed(second.errors,
                               ObjectValue(first.entries \o
                                 << [key |-> "f",
                                     value |-> second.value] >>))))

InitNullPropagation ==
  /\ typeInfo = NewTypeInfo(Undefined)
  /\ open = << >>
  /\ left = << >>
  /\ IdleVisit
  /\ IdleMap
  /\ IdleCtx
  /\ IdleLib
  /\ IdleLoops
  /\ \E path \in Paths, outcome \in Outcomes :
       exeContext = [path |-> path, outcome |-> outcome, errors |-> << >>]
  /\ execution = [started |-> FALSE]
  /\ response = << >>

(* execute(args) for a selection all of whose resolvers and completions    *)
(* are synchronous: an error thrown by the root's fields is recorded and   *)
(* data is null.                                                           *)
ExecutePath ==
  /\ ~execution.started
  /\ LET root == executeSubfields(<< >>, exeContext.path,
                                  exeContext.outcome, 1)
         reported == IF root.thrown = << >> THEN root.errors
                     ELSE Append(root.errors, root.thrown[1])
     IN /\ exeContext' = [exeContext EXCEPT !.errors = reported]
        /\ response' =
             << buildResponse(reported,
                              IF root.thrown = << >> THEN << root.value >>
                              ELSE << >>) >>
  /\ execution' = [started |-> TRUE]
  /\ UNCHANGED << tiVars, visitVars, mapVars, ctxVars, libVars, loopVars >>

NextNullPropagation == ExecutePath

SpecNullPropagation == InitNullPropagation /\ [][NextNullPropagation]_vars

(* The value of the entry with a key in an object.                         *)
EntryOf(object, key) ==
  LET j == CHOOSE j \in 1..Len(object.entries) : object.entries[j].key = key
  IN object.entries[j].value

(* The value of f at a level in a value of the level above, << >> when an  *)
(* object on the way is null.                                              *)
RECURSIVE ValueAt(_, _)
ValueAt(object, level) ==
  IF object.t # "object" THEN << >>
  ELSE IF level = 1 THEN << EntryOf(object, "f") >>
  ELSE ValueAt(EntryOf(object, "f"), level - 1)

(* The object a level's fields are entries of.                             *)
ObjectAt(data, level) ==
  IF level = 1 THEN data ELSE ValueAt(data, level - 1)[1]

(* The nullable levels above the last.                                     *)
NullableAncestors(path) ==
  {level \in 1..(Len(path) - 1) : ~path[level].nonNull}

Max(S) == CHOOSE x \in S : \A y \in S : y <= x

ErrorsAbout(reported, key, level) ==
  {j \in 1..Len(reported) :
     reported[j].key = key /\ reported[j].level = level}

(***************************************************************************)
(* C23.  Null-propagation law: when the non-null field at the end of the   *)
(* path completes to null or fails, the value of its nearest nullable      *)
(* ancestor is null and the objects above that ancestor keep their other   *)
(* entries, or data is null when no ancestor is nullable; and exactly one  *)
(* error is recorded for the failing field, none for the non-null levels   *)
(* the failure passes through.                                             *)
(***************************************************************************)
C23_NullPropagation ==
  LET path == exeContext.path
      leaf == Len(path)
      reported == response[1].errors
  IN response # << >> /\ path[leaf].nonNull /\ exeContext.outcome # "value"
     =>
     /\ IF NullableAncestors(path) = {} THEN response[1].data = << >>
        ELSE /\ response[1].data # << >>
             /\ ValueAt(response[1].data[1], Max(NullableAncestors(path)))
                  = << NullValue >>
             /\ \A level \in 1..Max(NullableAncestors(path)) :
                  KeysOf(ObjectAt(response[1].data[1], level).entries)
                    = IF path[level].sibling = "none" THEN << "f" >>
                      ELSE << "s", "f" >>
     /\ Cardinality(ErrorsAbout(reported, "f", leaf)) = 1
     /\ \A level \in 1..(leaf - 1) : ErrorsAbout(reported, "f", level) = {}
     /\ Len(reported) =
          1 + Cardinality({level \in 1..leaf : path[level].sibling = "error"})

(* A failure of a non-null leaf has passed a non-null level and stopped at *)
(* a nullable one, below the root's fields.                                *)
C23_Witness ==
  /\ response # << >>
  /\ Len(exeContext.path) = 3
  /\ ~exeContext.path[1].nonNull
  /\ exeContext.path[2].nonNull
  /\ exeContext.path[3].nonNull
  /\ exeContext.path[1].sibling = "value"
  /\ exeContext.outcome = "null"
  /\ response[1].data # << >>
  /\ Len(response[1].errors) = 1


(***************************************************************************)
(* execution/execute: collectFields, after "Selection-set collection" in   *)
(* section 4.7 of the specification.  A selection is a Field with its      *)
(* alias and name, an InlineFragment with its selections, or a             *)
(* FragmentSpread with the fragment's name; excluded says that @skip or    *)
(* @include leaves it out.  Every type condition matches.                  *)
(***************************************************************************)
MaxCollected == 2

MaxRecursion == 4

CollectField(alias, name) ==
  [kind |-> "Field", alias |-> alias, name |-> name, excluded |-> FALSE,
   selections |-> << >>]

CollectSpread(name, excluded) ==
  [kind |-> "FragmentSpread", alias |-> "", name |-> name,
   excluded |-> excluded, selections |-> << >>]

CollectInline(selections) ==
  [kind |-> "InlineFragment", alias |-> "", name |-> "",
   excluded |-> FALSE, selections |-> selections]

CollectSelections ==
  {CollectField("", "a"), CollectField("", "b"), CollectField("a", "b"),
   CollectSpread("A", FALSE), CollectSpread("B", FALSE),
   CollectSpread("A", TRUE),
   CollectInline(<< CollectField("", "a") >>),
   CollectInline(<< CollectSpread("A", FALSE) >>)}

(* The fragments A and B of a document: some spread themselves or each     *)
(* other.                                                                  *)
CollectFragments ==
  {[A |-> bodyA, B |-> bodyB] :
     bodyA \in {<< CollectField("", "a") >>,
                << CollectSpread("B", FALSE) >>,
                << CollectField("a", "b"), CollectSpread("A", FALSE) >>,
                << CollectSpread("B", FALSE), CollectField("", "b") >>},
     bodyB \in {<< CollectField("", "b") >>,
                << CollectSpread("A", FALSE) >>,
                << CollectSpread("A", FALSE), CollectField("", "a") >>,
                << CollectSpread("B", FALSE) >>}}

CollectInputs ==
  {[selections |-> selections, fragments |-> fragments] :
     selections \in
       UNION {[1..n -> CollectSelections] : n \in 0..MaxCollected},
     fragments \in CollectFragments}

(* getFieldEntryKey: the alias, or the name without one.                   *)
getFieldEntryKey(node) == IF node.alias # "" THEN node.alias ELSE node.name

(* The field node under its response key: a new key goes last, a key the   *)
(* mapping has gets the node at the end of its list.                       *)
AddField(fields, key, node) ==
  IF \E j \in 1..Len(fields) : fields[j].key = key
  THEN [j \in 1..Len(fields) |->
          IF fields[j].key = key
          THEN [key |-> key, nodes |-> Append(fields[j].nodes, node)]
          ELSE fields[j]]
  ELSE Append(fields, [key |-> key, nodes |-> << node >>])

(* A test of the visited fragment names that finds none.                   *)
isVisitedNever(visited, name) == FALSE

(* visitedFragmentNames[name]                                              *)
isVisited(visited, name) == name \in visited

(* collectFields from the i-th selection of a selection set on.  where     *)
(* names the selection set, so that a field node is told from its like in  *)
(* another selection set; depth counts the selection sets being collected. *)
(* The state: the mapping, the visited fragment names, every field node in *)
(* the order met, the fragments in the order expanded, and whether depth   *)
(* went beyond MaxRecursion.                                               *)
RECURSIVE collectFields(_, _, _, _, _, _)
collectFields(st, fragments, selections, where, i, depth) ==
  IF i > Len(selections) \/ st.exhausted THEN st
  ELSE IF depth > MaxRecursion THEN [st EXCEPT !.exhausted = TRUE]
  ELSE
    LET selection == selections[i]
        node == [key |-> getFieldEntryKey(selection),
                 name |-> selection.name, at |-> Append(where, i)]
        next ==
          IF selection.excluded THEN st
          ELSE IF selection.kind = "Field"
          THEN [st EXCEPT !.fields = AddField(@, node.key, node),
                          !.met = Append(@, node)]
          ELSE IF selection.kind = "InlineFragment"
          THEN collectFields(st, fragments, selection.selections,
                             Append(where, i), 1, depth + 1)
          ELSE IF isVisited(st.visited, selection.name) THEN st
          ELSE collectFields(
                 [st EXCEPT !.visited = @ \cup {selection.name},
                            !.expanded = Append(@, selection.name)],
                 fragments, fragments[selection.name],
                 << selection.name >>, 1, depth + 1)
    IN Bind(next, LAMBDA after :
              collectFields(after, fragments, selections, where, i + 1,
                            depth))

InitCollect ==
  /\ typeInfo = NewTypeInfo(Undefined)
  /\ open = << >>
  /\ left = << >>
  /\ IdleVisit
  /\ IdleMap
  /\ IdleCtx
  /\ IdleExec
  /\ IdleLoops
  /\ input \in CollectInputs
  /\ returned = << >>
  /\ cache0 = << >>
  /\ invoked = << >>

(* A call of collectFields on the operation's selection set, with an empty *)
(* mapping and no fragment visited.                                        *)
CollectFields ==
  /\ returned = << >>
  /\ returned' =
       << collectFields([fields |-> << >>, visited |-> {}, met |-> << >>,
                         expanded |-> << >>, exhausted |-> FALSE],
                        input.fragments, input.selections, << "op" >>, 1,
                        1) >>
  /\ UNCHANGED << tiVars, visitVars, mapVars, ctxVars, input, cache0,
                  invoked, execVars, loopVars >>

NextCollect == CollectFields

SpecCollect == InitCollect /\ [][NextCollect]_vars

(* The response keys of the field nodes in the order first met.            *)
RECURSIVE FirstOccurrences(_, _)
FirstOccurrences(met, seen) ==
  IF met = << >> THEN << >>
  ELSE IF met[1].key \in seen THEN FirstOccurrences(Tail(met), seen)
  ELSE << met[1].key >> \o
         FirstOccurrences(Tail(met), seen \cup {met[1].key})

(***************************************************************************)
(* C26.  Selection-set collection ends, with the field nodes grouped by    *)
(* response key (alias or name): the keys are in the order in which they   *)
(* are first met, each key's list holds the nodes met with that key in the *)
(* order met, and each named fragment is expanded at most once however     *)
(* often it is spread, also when fragments spread each other in a cycle.   *)
(***************************************************************************)
C26_GroupedOnce ==
  returned # << >> =>
    LET st == returned[1]
    IN /\ ~st.exhausted
       /\ KeysOf(st.fields) = FirstOccurrences(st.met, {})
       /\ \A j \in 1..Len(st.fields) :
            st.fields[j].nodes =
              SelectSeq(st.met, LAMBDA node : node.key = st.fields[j].key)
       /\ \A j, k \in 1..Len(st.expanded) :
            st.expanded[j] = st.expanded[k] => j = k

(* Fragments A and B spread each other and A is spread twice.              *)
C26_Witness ==
  /\ returned # << >>
  /\ input.fragments.A
       = << CollectSpread("B", FALSE), CollectField("", "b") >>
  /\ input.fragments.B
       = << CollectSpread("A", FALSE), CollectField("", "a") >>
  /\ input.selections
       = << CollectSpread("A", FALSE), CollectSpread("A", FALSE) >>
  /\ KeysOf(returned[1].fields) = << "a", "b" >>
  /\ returned[1].expanded = << "A", "B" >>


(***************************************************************************)
(* validation/validate: validate(schema, document, rules, typeInfo,        *)
(* options), after section 4.5 of the specification.  The validator is not *)
(* among the sources.  A walk is the numbers of errors the rules report at *)
(* each of its nodes; a rule error is the node and its number among the    *)
(* reports at that node.                                                   *)
(***************************************************************************)
MaxNodes == 3

MaxReports == 2

MaxLimit == 2

TooManyErrors ==
  [message |-> "Too many validation errors, error limit reached.",
   nodes |-> << >>]

RuleError(node, k) ==
  [message |-> "rule error", nodes |-> << node, k >>]

ValidateInputs ==
  {[maxErrors |-> maxErrors, reports |-> reports] :
     maxErrors \in 0..MaxLimit,
     reports \in UNION {[1..n -> 0..MaxReports] : n \in 0..MaxNodes}}

(* The error sink without a limit.                                         *)
onErrorUnlimited(sink, maxErrors, error) ==
  [errors |-> Append(sink.errors, error), aborted |-> FALSE]

(* The error sink handed to the ValidationContext: a report that finds     *)
(* maxErrors errors gets the terminal error appended in its place and      *)
(* aborts the walk.                                                        *)
onError(sink, maxErrors, error) ==
  IF Len(sink.errors) >= maxErrors
  THEN [errors |-> Append(sink.errors, TooManyErrors), aborted |-> TRUE]
  ELSE [errors |-> Append(sink.errors, error), aborted |-> FALSE]

(* The rules' functions for a node, from the k-th report on: an aborted    *)
(* walk calls nothing more.                                                *)
RECURSIVE dispatch(_, _, _, _, _)
dispatch(sink, maxErrors, node, k, count) ==
  IF k > count \/ sink.aborted THEN sink
  ELSE Bind(onError(sink, maxErrors, RuleError(node, k)),
            LAMBDA next : dispatch(next, maxErrors, node, k + 1, count))

InitValidate ==
  /\ typeInfo = NewTypeInfo(Undefined)
  /\ open = << >>
  /\ left = << >>
  /\ IdleVisit
  /\ IdleMap
  /\ IdleExec
  /\ IdleLoops
  /\ context = NewContext([kind |-> "Document", definitions |-> << >>])
  /\ served = FALSE
  /\ errors = << >>
  /\ position = 0
  /\ input \in ValidateInputs
  /\ returned = << >>
  /\ cache0 = << >>
  /\ invoked = << >>

(* The walk visits its next node and the rules report there; after the     *)
(* last node, or when the walk is aborted, validate returns the errors.    *)
VisitNode ==
  /\ returned = << >>
  /\ position < Len(input.reports)
  /\ LET sink == dispatch([errors |-> errors, aborted |-> FALSE],
                          input.maxErrors, position + 1, 1,
                          input.reports[position + 1])
     IN /\ errors' = sink.errors
        /\ position' = position + 1
        /\ returned' = IF sink.aborted \/ position' = Len(input.reports)
                       THEN << [errors |-> sink.errors,
                                aborted |-> sink.aborted] >>
                       ELSE << >>
  /\ UNCHANGED << tiVars, visitVars, mapVars, context, served, input,
                  cache0, invoked, execVars, loopVars >>

(* The walk of a document without nodes to report at.                      *)
ReturnEmpty ==
  /\ returned = << >>
  /\ Len(input.reports) = 0
  /\ returned' = << [errors |-> errors, aborted |-> FALSE] >>
  /\ UNCHANGED << tiVars, visitVars, mapVars, ctxVars, input, cache0,
                  invoked, execVars, loopVars >>

NextValidate == VisitNode \/ ReturnEmpty

SpecValidate == InitValidate /\ [][NextValidate]_vars

(* The errors the rules report at the nodes from a node on, up to the      *)
(* last node visited.                                                      *)
RECURSIVE ReportsFrom(_, _, _)
ReportsFrom(reports, node, upTo) ==
  IF node > upTo THEN << >>
  ELSE [k \in 1..reports[node] |-> RuleError(node, k)]
         \o ReportsFrom(reports, node + 1, upTo)

MaxSpreadSelections == 4

SpreadDocuments ==
  {[kind |-> "Document",
    definitions |-> << Definition("OperationDefinition", "", set) >>] :
     set \in UNION {SelectionSetsOfSize(n) : n \in 0..MaxSpreadSelections}}

InitSpreads ==
  /\ typeInfo = NewTypeInfo(Undefined)
  /\ open = << >>
  /\ left = << >>
  /\ IdleVisit
  /\ IdleMap
  /\ IdleLib
  /\ IdleLoops
  /\ IdleExec
  /\ \E ast \in SpreadDocuments : context = NewContext(ast)
  /\ served = FALSE
  /\ errors = << >>
  /\ position = 0

NextSpreads == GetFragmentSpreads

SpecSpreads == InitSpreads /\ [][NextSpreads]_vars

(* The first index at which two paths differ, neither a prefix of the      *)
(* other.                                                                  *)
Fork(p, q) ==
  CHOOSE c \in 1..Len(p) :
    /\ c <= Len(q)
    /\ p[c] # q[c]
    /\ SubSeq(p, 1, c - 1) = SubSeq(q, 1, c - 1)

(***************************************************************************)
(* C28.  In every sequence getFragmentSpreads keeps, a spread comes before *)
(* another exactly as the stack-driven walk meets them: spreads that are   *)
(* direct children of one selection set stand together in source order;    *)
(* the spreads of a selection set come before those of the selection sets  *)
(* nested in it; and of two selection sets nested side by side the one     *)
(* later in the source, pushed last, has its spreads first.                *)
(***************************************************************************)
C28_StackOrder ==
  \A set \in DOMAIN context.fragmentSpreads :
    LET spreads == context.fragmentSpreads[set]
    IN \A i, j \in 1..Len(spreads) :
         i < j =>
           LET p == Front(spreads[i].path)
               q == Front(spreads[j].path)
           IN IF p = q
              THEN /\ Last(spreads[i].path) < Last(spreads[j].path)
                   /\ \A k \in i..j : Front(spreads[k].path) = p
              ELSE IF IsPrefix(p, q) THEN TRUE
              ELSE IF IsPrefix(q, p) THEN FALSE
              ELSE p[Fork(p, q)] > q[Fork(p, q)]

(* { f { ...A } f { ...B } }: the spread of the second field comes first.  *)
C28_Witness ==
  /\ context.ast.definitions[1].selectionSet =
       << Selection("Field", "f",
                    << << Selection("FragmentSpread", "A", << >>) >> >>),
          Selection("Field", "f",
                    << << Selection("FragmentSpread", "B", << >>) >> >>) >>
  /\ NodeId(1, << >>) \in DOMAIN context.fragmentSpreads
  /\ context.fragmentSpreads[NodeId(1, << >>)]
       = << NodeId(1, << 2, 1 >>), NodeId(1, << 1, 1 >>) >>


(* The kinds of the nodes entered and not yet left.                        *)
OpenKinds == {Doc[open[i].node].kind : i \in 1..Len(open)}

(***************************************************************************)
(* C29.  In a well-nested walk on a fresh TypeInfo getDirective() has a    *)
(* value only between enter and leave of a Directive node, getArgument()   *)
(* only between enter and leave of an Argument node, getEnumValue() only   *)
(* between enter and leave of an enum value node; and when such a node has *)
(* just been left its slot is empty.                                       *)
(***************************************************************************)
C29_SlotsOnlyInside ==
  /\ typeInfo.directive # Undefined => "Directive" \in OpenKinds
  /\ typeInfo.argument # << >> => "Argument" \in OpenKinds
  /\ typeInfo.enumValue # Undefined => "EnumValue" \in OpenKinds
  /\ left # << >> =>
       /\ Doc[left[1].node].kind = "Directive" =>
            typeInfo.directive = Undefined
       /\ Doc[left[1].node].kind = "Argument" => typeInfo.argument = << >>
       /\ Doc[left[1].node].kind = "EnumValue" =>
            typeInfo.enumValue = Undefined

(* Inside a Directive and its Argument both slots have a value.            *)
C29_Witness ==
  /\ Len(open) = 2
  /\ Doc[open[1].node].kind = "Directive"
  /\ Doc[open[2].node].kind = "Argument"
  /\ typeInfo.directive # Undefined
  /\ typeInfo.argument # << >>

(* Inside an enum value node the enum value slot has a value.              *)
C29_WitnessEnum ==
  /\ open # << >>
  /\ Doc[Last(open).node].kind = "EnumValue"
  /\ typeInfo.enumValue # Undefined

(* A Directive node has just been left, inside another node.               *)
C29_WitnessLeft ==
  /\ left # << >>
  /\ Doc[left[1].node].kind = "Directive"
  /\ open # << >>


(***************************************************************************)
(* The free driver over list literals: a TypeInfo constructed with an      *)
(* initial type that is no input type, a named, a non-null, a list, a      *)
(* non-null list or a nested list input type, and walks that nest list     *)
(* values, the object fields f and l and an argument.                      *)
(***************************************************************************)
ListInitialTypes ==
  {Undefined, << "Query" >>, << "Int" >>, << "NonNull", "Int" >>,
   << "List", "Int" >>, << "NonNull", "List", "NonNull", "Int" >>,
   << "List", "NonNull", "List", "Kind" >>, << "Inp" >>}

ListDriverNodes == {11, 33, 35, 36}

InitLists ==
  /\ \E t \in ListInitialTypes : typeInfo = NewTypeInfo(t)
  /\ open = << >>
  /\ left = << >>
  /\ IdleVisit
  /\ IdleMap
  /\ IdleLib
  /\ IdleLoops
  /\ IdleExec
  /\ IdleCtx

NextLists ==
  \/ \E n \in ListDriverNodes : EnterNode(n)
  \/ LeaveNode

SpecLists == InitLists /\ [][NextLists]_vars

(* What enter(ListValue) is to push for the input type it finds: the type  *)
(* without a leading non-null wrapper, and without the list wrapper that   *)
(* then leads; undefined when that is no input type.                       *)
ItemTypeFor(inputType) ==
  LET unwrapped == IF inputType # << >> /\ inputType[1] = "NonNull"
                   THEN SubSeq(inputType, 2, Len(inputType))
                   ELSE inputType
      item == IF unwrapped # << >> /\ unwrapped[1] = "List"
              THEN SubSeq(unwrapped, 2, Len(unwrapped))
              ELSE unwrapped
  IN IF item # << >>
        /\ TypeKind(item[Len(item)]) \in {"Scalar", "Enum", "InputObject"}
     THEN item
     ELSE << >>

(***************************************************************************)
(* C30.  enter(ListValue) pushes as input type the item type of the        *)
(* current input type, taken without its non-null wrapper, when that is a  *)
(* list type, otherwise that nullable type itself, and undefined when the  *)
(* result is not an input type; it pushes undefined as default value.      *)
(* Stated where the ListValue is the innermost node entered: the stacks    *)
(* are those found at enter with the two values pushed.                    *)
(***************************************************************************)
C30_ListItemType ==
  open # << >> /\ Doc[Last(open).node].kind = "ListValue" =>
    LET found == Last(open).snap
        inputType == IF found[3] = << >> THEN << >> ELSE Last(found[3])
    IN /\ typeInfo.inputTypeStack = Append(found[3], ItemTypeFor(inputType))
       /\ typeInfo.defaultValueStack = Append(found[5], Undefined)
       /\ typeInfo.typeStack = found[1]
       /\ typeInfo.parentTypeStack = found[2]
       /\ typeInfo.fieldDefStack = found[4]

(* A list literal at a non-null list type has pushed the item type.        *)
C30_Witness ==
  /\ Len(open) = 1
  /\ Doc[open[1].node].kind = "ListValue"
  /\ open[1].snap[3] = << << "NonNull", "List", "NonNull", "Int" >> >>
  /\ typeInfo.inputTypeStack =
       << << "NonNull", "List", "NonNull", "Int" >>, << "NonNull", "Int" >> >>

(* A list literal where no list is expected has pushed the nullable type.  *)
C30_WitnessNoList ==
  /\ Len(open) = 1
  /\ Doc[open[1].node].kind = "ListValue"
  /\ open[1].snap[3] = << << "NonNull", "Int" >> >>
  /\ typeInfo.inputTypeStack = << << "NonNull", "Int" >>, << "Int" >> >>


(***************************************************************************)
(* The free driver over selection sets and fragments: a TypeInfo           *)
(* constructed with no type, an object, an interface, a wrapped union, a   *)
(* list of objects, a wrapped scalar, an enum or an input object type, and *)
(* walks that nest selection sets, the fields pet, name and us, the inline *)
(* fragment on Dog and the inline fragment without a type condition.       *)
(***************************************************************************)
FragmentInitialTypes ==
  {Undefined, << "Query" >>, << "Pet" >>,
   << "NonNull", "List", "NonNull", "U" >>, << "List", "Dog" >>,
   << "NonNull", "String" >>, << "Kind" >>, << "Inp" >>}

FragmentDriverNodes == {13, 14, 20, 21, 25, 30}

InitFragments ==
  /\ \E t \in FragmentInitialTypes : typeInfo = NewTypeInfo(t)
  /\ open = << >>
  /\ left = << >>
  /\ IdleVisit
  /\ IdleMap
  /\ IdleLib
  /\ IdleLoops
  /\ IdleExec
  /\ IdleCtx

NextFragments ==
  \/ \E n \in FragmentDriverNodes : EnterNode(n)
  \/ LeaveNode

SpecFragments == InitFragments /\ [][NextFragments]_vars

(* getParentType() inside the k-th node entered: the top of the parent     *)
(* type stack right after enter of that node, which is the stack found at  *)
(* enter of the next node, or the current one for the innermost node.      *)
ParentTypeInside(k) ==
  IF k = Len(open) THEN getParentType(typeInfo) ELSE Top(open[k + 1].snap[2])

(* The type the k-th node entered found on top of the type stack.          *)
TypeFoundBy(k) == Top(open[k].snap[1])

(* The k-th node entered is an inline fragment without a type condition    *)
(* that sits in a selection set and whose own selection set is entered.    *)
BareInlineFragmentAt(k) ==
  /\ k > 1 /\ k < Len(open)
  /\ Doc[open[k - 1].node].kind = "SelectionSet"
  /\ Doc[open[k].node].kind = "InlineFragment"
  /\ Doc[open[k].node].type = Undefined
  /\ Doc[open[k + 1].node].kind = "SelectionSet"

(***************************************************************************)
(* C31.  An inline fragment without a type condition does not change the   *)
(* parent type: the parent type inside its selection set is the parent     *)
(* type inside the selection set that holds the fragment, whatever the     *)
(* enclosing type is, and the fragment itself leaves the parent type       *)
(* stack as it found it.                                                   *)
(***************************************************************************)
C31_BareInlineKeepsParent ==
  \A k \in 1..Len(open) :
    BareInlineFragmentAt(k) =>
      /\ ParentTypeInside(k + 1) = ParentTypeInside(k - 1)
      /\ ParentTypeInside(k) = ParentTypeInside(k - 1)

(* Inside { ... { } } at the type [U!]! the parent type is U in both       *)
(* selection sets.                                                         *)
C31_Witness ==
  /\ Len(open) = 3
  /\ BareInlineFragmentAt(2)
  /\ TypeFoundBy(1) = << "NonNull", "List", "NonNull", "U" >>
  /\ ParentTypeInside(1) = << "U" >>
  /\ getParentType(typeInfo) = << "U" >>

(* Inside { ... { } } at the type String! there is no parent type in       *)
(* either selection set.                                                   *)
C31_WitnessNotComposite ==
  /\ Len(open) = 3
  /\ BareInlineFragmentAt(2)
  /\ TypeFoundBy(1) = << "NonNull", "String" >>
  /\ ParentTypeInside(1) = Undefined
  /\ getParentType(typeInfo) = Undefined
  /\ Len(typeInfo.parentTypeStack) = 2


(***************************************************************************)
(* The two traversals of the context, loop iteration by loop iteration.    *)
(* frames is the stack of calls in progress, outermost first: a call of    *)
(* getRecursivelyReferencedFragments and, above it, the call of            *)
(* getFragmentSpreads it makes for a node.  A frame keeps the locals of    *)
(* its while loop and counts the iterations; the frame of the outermost    *)
(* call stays, with its result, when the call has returned.                *)
(***************************************************************************)

(* key is the selection set the call is about: the node handed to         *)
(* getFragmentSpreads, the selection set of the operation handed to        *)
(* getRecursivelyReferencedFragments.                                      *)
Frame(fn, key, at, st, steps) ==
  [fn |-> fn, key |-> key, pc |-> at, st |-> st, steps |-> steps]

(* The locals of the two loops: spreads and setsToVisit of                 *)
(* getFragmentSpreads, fragments, collectedNames and nodesToVisit of       *)
(* getRecursivelyReferencedFragments.  A frame leaves the other loop's     *)
(* locals empty.                                                           *)
Locals(setsToVisit, spreads, fragments, collectedNames, nodesToVisit) ==
  [setsToVisit |-> setsToVisit, spreads |-> spreads,
   fragments |-> fragments, collectedNames |-> collectedNames,
   nodesToVisit |-> nodesToVisit]

SpreadsLocals(setsToVisit, spreads) ==
  Locals(setsToVisit, spreads, << >>, {}, << >>)

FragmentsLocals(fragments, collectedNames, nodesToVisit) ==
  Locals(<< >>, << >>, fragments, collectedNames, nodesToVisit)

(* What the call of a frame returns.                                       *)
ResultOf(frame) ==
  IF frame.fn = "getFragmentSpreads" THEN frame.st.spreads
  ELSE frame.st.fragments

(* No call is in progress: none was made, or the last one has returned.    *)
NoCallInProgress ==
  frames = << >> \/ (Len(frames) = 1 /\ frames[1].pc = "returned")

(* The innermost call is in the while loop of fn.                          *)
InLoop(fn) ==
  /\ frames # << >>
  /\ Last(frames).fn = fn
  /\ Last(frames).pc = "loop"

(* for (const spread of spreads) in the frame of                           *)
(* getRecursivelyReferencedFragments, with the context as it is then.      *)
afterSpreads(frame, ctx, spreads) ==
  LET st == forSpreads([ctx |-> ctx,
                        fragments |-> frame.st.fragments,
                        collectedNames |-> frame.st.collectedNames,
                        nodesToVisit |-> frame.st.nodesToVisit],
                       spreads, 1)
  IN [ctx |-> st.ctx,
      frame |-> [frame EXCEPT !.st = FragmentsLocals(st.fragments,
                                                     st.collectedNames,
                                                     st.nodesToVisit)]]

InitLoops ==
  /\ typeInfo = NewTypeInfo(Undefined)
  /\ open = << >>
  /\ left = << >>
  /\ IdleVisit
  /\ IdleMap
  /\ IdleLib
  /\ IdleExec
  /\ \E ast \in Documents : context = NewContext(ast)
  /\ served = FALSE
  /\ errors = << >>
  /\ position = 0
  /\ frames = << >>

(* A rule calls context.getFragmentSpreads(node): the sequence kept for    *)
(* the node is returned at once, otherwise the while loop is entered.      *)
EnterGetFragmentSpreads ==
  /\ NoCallInProgress
  /\ \E node \in SelectionSetNodes(context.ast) :
       frames' =
         IF node \in DOMAIN context.fragmentSpreads
         THEN << Frame("getFragmentSpreads", node, "returned",
                       SpreadsLocals(<< >>, context.fragmentSpreads[node]),
                       0) >>
         ELSE << Frame("getFragmentSpreads", node, "loop",
                       SpreadsLocals(<< node >>, << >>), 0) >>
  /\ UNCHANGED << tiVars, visitVars, mapVars, ctxVars, libVars, execVars >>

(* One iteration of while (setsToVisit.length !== 0).                      *)
SetsToVisitStep ==
  /\ InLoop("getFragmentSpreads")
  /\ Last(frames).st.setsToVisit # << >>
  /\ LET frame == Last(frames)
         st == forSelections(context.ast,
                             [frame.st EXCEPT !.setsToVisit = Front(@)],
                             Last(frame.st.setsToVisit), 1)
     IN frames' = Append(Front(frames),
                         [frame EXCEPT !.st = st, !.steps = @ + 1])
  /\ UNCHANGED << tiVars, visitVars, mapVars, ctxVars, libVars, execVars >>

(* setsToVisit is empty: the spreads are kept for the node and returned,   *)
(* to the rule or to the loop of getRecursivelyReferencedFragments, which  *)
(* then runs its for loop over them.                                       *)
ReturnFragmentSpreads ==
  /\ InLoop("getFragmentSpreads")
  /\ Last(frames).st.setsToVisit = << >>
  /\ LET frame == Last(frames)
         spreads == frame.st.spreads
         kept == [context EXCEPT
                    !.fragmentSpreads = (frame.key :> spreads) @@ @,
                    !.walks.fragmentSpreads = Count(@, frame.key)]
     IN IF Len(frames) = 1
        THEN /\ context' = kept
             /\ frames' = << [frame EXCEPT !.pc = "returned"] >>
        ELSE LET after == afterSpreads(frames[1], kept, spreads)
             IN /\ context' = after.ctx
                /\ frames' = << after.frame >>
  /\ UNCHANGED << tiVars, visitVars, mapVars, served, errors, position,
                  libVars, execVars >>

(* A rule calls context.getRecursivelyReferencedFragments(operation).      *)
EnterGetRecursivelyReferencedFragments ==
  /\ NoCallInProgress
  /\ \E operation \in OperationNodes(context.ast) :
       frames' =
         IF operation \in DOMAIN context.recursivelyReferencedFragments
         THEN << Frame("getRecursivelyReferencedFragments",
                       NodeId(operation, << >>), "returned",
                       FragmentsLocals(
                         context.recursivelyReferencedFragments[operation],
                         {}, << >>),
                       0) >>
         ELSE << Frame("getRecursivelyReferencedFragments",
                       NodeId(operation, << >>), "loop",
                       FragmentsLocals(<< >>, {},
                                       << NodeId(operation, << >>) >>),
                       0) >>
  /\ UNCHANGED << tiVars, visitVars, mapVars, ctxVars, libVars, execVars >>

(* One iteration of while (nodesToVisit.length !== 0): the node is popped  *)
(* and getFragmentSpreads(node) is called, which returns at once the       *)
(* sequence it keeps for the node, or enters its own loop.                 *)
NodesToVisitStep ==
  /\ InLoop("getRecursivelyReferencedFragments")
  /\ Last(frames).st.nodesToVisit # << >>
  /\ LET frame == Last(frames)
         node == Last(frame.st.nodesToVisit)
         popped == [frame EXCEPT !.st.nodesToVisit = Front(@),
                                 !.steps = @ + 1]
     IN IF node \in DOMAIN context.fragmentSpreads
        THEN LET after == afterSpreads(popped, context,
                                       context.fragmentSpreads[node])
             IN /\ context' = after.ctx
                /\ frames' = << after.frame >>
        ELSE /\ context' = context
             /\ frames' = << popped,
                             Frame("getFragmentSpreads", node, "loop",
                                   SpreadsLocals(<< node >>, << >>), 0) >>
  /\ UNCHANGED << tiVars, visitVars, mapVars, served, errors, position,
                  libVars, execVars >>

(* nodesToVisit is empty: the fragments are kept for the operation and     *)
(* returned.                                                               *)
ReturnReferencedFragments ==
  /\ InLoop("getRecursivelyReferencedFragments")
  /\ Last(frames).st.nodesToVisit = << >>
  /\ LET frame == Last(frames)
     IN /\ context' =
             [context EXCEPT
                !.recursivelyReferencedFragments =
                  (frame.key.def :> frame.st.fragments) @@ @,
                !.walks.recursivelyReferencedFragments =
                  Count(@, frame.key.def)]
        /\ frames' = << [frame EXCEPT !.pc = "returned"] >>
  /\ UNCHANGED << tiVars, visitVars, mapVars, served, errors, position,
                  libVars, execVars >>

(* The steps of a call in progress.                                        *)
RunLoops ==
  \/ SetsToVisitStep
  \/ ReturnFragmentSpreads
  \/ NodesToVisitStep
  \/ ReturnReferencedFragments

NextLoops ==
  \/ EnterGetFragmentSpreads
  \/ EnterGetRecursivelyReferencedFragments
  \/ RunLoops

SpecLoops == InitLoops /\ [][NextLoops]_vars

RECURSIVE SetsIn(_, _)

(* How many selection sets there are in a selection set and below it: the  *)
(* set itself and those of its selections from the i-th on.                *)
SetsIn(selections, i) ==
  IF i > Len(selections) THEN 1
  ELSE (IF selections[i].selectionSet = << >> THEN 0
        ELSE SetsIn(selections[i].selectionSet[1], 1))
         + SetsIn(selections, i + 1)

RECURSIVE SetsAhead(_, _)

(* How many selection sets the loop of getFragmentSpreads has yet to pop:  *)
(* those on setsToVisit and all below them.                                *)
SetsAhead(ast, setsToVisit) ==
  IF setsToVisit = << >> THEN 0
  ELSE SetsIn(selectionsOf(ast, Head(setsToVisit)), 1)
         + SetsAhead(ast, Tail(setsToVisit))

(* The names of the fragments the document defines.                        *)
DefinedNames(ast) ==
  {ast.definitions[d].name :
     d \in {e \in 1..Len(ast.definitions) :
              ast.definitions[e].kind = "FragmentDefinition"}}

(* How many nodes the loop of getRecursivelyReferencedFragments has yet    *)
(* to pop at most: those on nodesToVisit and one per defined fragment      *)
(* name it has not collected.                                              *)
NodesAhead(ast, st) ==
  Len(st.nodesToVisit) + Cardinality(DefinedNames(ast) \ st.collectedNames)

(* The variant of the calls in progress, a pair of natural numbers: what   *)
(* getRecursivelyReferencedFragments has ahead, one more while it has not  *)
(* returned, and the same for getFragmentSpreads.                          *)
Ahead(fn) ==
  LET of == {k \in 1..Len(frames) :
               frames[k].fn = fn /\ frames[k].pc = "loop"}
  IN IF of = {} THEN 0
     ELSE LET frame == frames[CHOOSE k \in of : TRUE]
          IN 1 + (IF fn = "getFragmentSpreads"
                  THEN SetsAhead(context.ast, frame.st.setsToVisit)
                  ELSE NodesAhead(context.ast, frame.st))

Variant ==
  << Ahead("getRecursivelyReferencedFragments"), Ahead("getFragmentSpreads") >>

(* The lexicographic order of such pairs, which is well-founded.           *)
Before(v, w) == v[1] < w[1] \/ (v[1] = w[1] /\ v[2] < w[2])

CallInProgress == ~NoCallInProgress

(* The guards of the four steps of a call in progress, taken together:     *)
(* the innermost call is in one of the two loops, with work ahead or none. *)
CanRun ==
  \/ InLoop("getFragmentSpreads")
  \/ InLoop("getRecursivelyReferencedFragments")

(* The names the spreads of the document use without a definition.         *)
UndefinedNames(ast) ==
  {nodeAt(ast, n).name : n \in {m \in SelectionNodes(ast) :
                                  nodeAt(ast, m).kind = "FragmentSpread"}}
    \ {ast.definitions[d].name : d \in 1..Len(ast.definitions)}

(* The fragment spreads itself, directly or through another fragment.      *)
Cyclic(ast) ==
  \E d \in 1..Len(ast.definitions) :
    /\ ast.definitions[d].kind = "FragmentDefinition"
    /\ d \in ReachableFrom(ast, SpreadTargets(ast, d))

(* What a call that has returned has returned: a sequence of spreads of    *)
(* the document, or of fragment definitions of the document; a name        *)
(* without definition was noted and passed over, and no error was          *)
(* reported.                                                               *)
ReturnedWell ==
  frames # << >> /\ frames[1].pc = "returned" =>
    /\ errors = << >>
    /\ frames[1].fn = "getFragmentSpreads" =>
         Range(ResultOf(frames[1])) \subseteq SelectionNodes(context.ast)
    /\ frames[1].fn = "getRecursivelyReferencedFragments" =>
         /\ \A d \in Range(ResultOf(frames[1])) :
              context.ast.definitions[d].kind = "FragmentDefinition"
         /\ \A name \in frames[1].st.collectedNames
                          \cap UndefinedNames(context.ast) :
              \A d \in Range(ResultOf(frames[1])) :
                context.ast.definitions[d].name # name

(***************************************************************************)
(* C32.  getFragmentSpreads and getRecursivelyReferencedFragments          *)
(* terminate: every call in progress returns, for every document, those    *)
(* whose fragments spread themselves or each other and those that spread   *)
(* names without a definition included; a name without a definition is     *)
(* passed over and nothing is reported for it.                             *)
(* Stated with a variant: a call in progress can always go on, and each   *)
(* of its loop iterations and returns makes the variant smaller in a       *)
(* well-founded order, so that the call returns after finitely many.       *)
(***************************************************************************)
C32_TraversalsTerminate ==
  /\ [](ReturnedWell /\ (CallInProgress => CanRun))
  /\ [][CallInProgress => Before(Variant', Variant)]_vars

(* getRecursivelyReferencedFragments has returned for a document in which  *)
(* A spreads B and B spreads A, after a loop of three iterations.          *)
C32_Witness ==
  /\ Len(frames) = 1
  /\ frames[1].fn = "getRecursivelyReferencedFragments"
  /\ frames[1].pc = "returned"
  /\ frames[1].steps = 3
  /\ Cyclic(context.ast)
  /\ Len(ResultOf(frames[1])) = 2

(* It has returned for a document that spreads a name with no definition:  *)
(* the name was noted, and the result is without it.                       *)
C32_WitnessUndefined ==
  /\ Len(frames) = 1
  /\ frames[1].fn = "getRecursivelyReferencedFragments"
  /\ frames[1].pc = "returned"
  /\ frames[1].st.collectedNames \cap UndefinedNames(context.ast) # {}
  /\ Len(ResultOf(frames[1])) = 1

(* getFragmentSpreads has returned after a loop over nested selection      *)
(* sets.                                                                   *)
C32_WitnessSpreads ==
  /\ Len(frames) = 1
  /\ frames[1].fn = "getFragmentSpreads"
  /\ frames[1].pc = "returned"
  /\ frames[1].steps = 3


(***************************************************************************)
(* Calls of getFragment on one context.  The documents hold up to          *)
(* MaxFragmentDefinitions definitions, each an operation or a fragment     *)
(* named A or B, so that a name has no, one or several definitions; the    *)
(* rules ask for A, B and C, a name no document defines.  returned keeps   *)
(* the calls with what they returned: the definition, named by its index   *)
(* in the document, or 0 for undefined.                                    *)
(***************************************************************************)
MaxFragmentDefinitions == 3

(* The rules make at most MaxLookups calls of getFragment.                 *)
MaxLookups == 3

AskedNames == FragmentNames \cup {"C"}

IndexDefinitions ==
  {Definition("OperationDefinition", "", << >>)}
    \cup {Definition("FragmentDefinition", name, << >>) :
            name \in FragmentNames}

IndexDocuments ==
  {[kind |-> "Document", definitions |-> definitions] :
     definitions \in UNION {[1..n -> IndexDefinitions] :
                              n \in 0..MaxFragmentDefinitions}}

InitIndex ==
  /\ typeInfo = NewTypeInfo(Undefined)
  /\ open = << >>
  /\ left = << >>
  /\ IdleVisit
  /\ IdleMap
  /\ IdleLoops
  /\ IdleExec
  /\ \E ast \in IndexDocuments : context = NewContext(ast)
  /\ served = FALSE
  /\ errors = << >>
  /\ position = 0
  /\ input = << >>
  /\ returned = << >>
  /\ cache0 = << >>
  /\ invoked = << >>

(* A rule calls context.getFragment(name).                                 *)
AskFragment ==
  /\ Len(returned) < MaxLookups
  /\ \E name \in AskedNames :
       LET got == getFragment(context, name)
       IN /\ context' = got.ctx
          /\ served' = (got.ctx.walks = context.walks)
          /\ returned' = Append(returned, [name |-> name,
                                           result |-> got.result,
                                           served |-> served'])
  /\ UNCHANGED << tiVars, visitVars, mapVars, errors, position, input,
                  cache0, invoked, execVars, loopVars >>

NextIndex == AskFragment

SpecIndex == InitIndex /\ [][NextIndex]_vars

(***************************************************************************)
(* C33.  getFragment(name) returns the fragment definition of that name,   *)
(* nothing when the document has none, and the last one in document order  *)
(* when it has several; two calls with one name on one context return the  *)
(* same, and only the first call on a context builds the index.            *)
(***************************************************************************)
C33_GetFragmentLastOfName ==
  \A i \in 1..Len(returned) :
    LET call == returned[i]
        named == {d \in 1..Len(context.ast.definitions) :
                    /\ context.ast.definitions[d].kind = "FragmentDefinition"
                    /\ context.ast.definitions[d].name = call.name}
    IN /\ named = {} => call.result = 0
       /\ named # {} => /\ call.result \in named
                        /\ \A d \in named : d <= call.result
       /\ \A j \in 1..Len(returned) :
            returned[j].name = call.name => returned[j].result = call.result
       /\ call.served = (i > 1)

(* The document defines A, B and A again: getFragment("A") has returned    *)
(* the third definition, twice.                                            *)
C33_Witness ==
  /\ Len(context.ast.definitions) = 3
  /\ context.ast.definitions[1].name = "A"
  /\ context.ast.definitions[2].name = "B"
  /\ context.ast.definitions[3].name = "A"
  /\ Len(returned) = 3
  /\ returned[1] = [name |-> "A", result |-> 3, served |-> FALSE]
  /\ returned[2].name = "B" /\ returned[2].result = 2
  /\ returned[3] = [name |-> "A", result |-> 3, served |-> TRUE]

(* The document defines A alone: getFragment("B") has returned nothing.    *)
C33_WitnessUndefined ==
  /\ Len(context.ast.definitions) = 2
  /\ context.ast.definitions[1].kind = "OperationDefinition"
  /\ context.ast.definitions[2].name = "A"
  /\ Len(returned) = 2
  /\ returned[1].name = "B" /\ returned[1].result = 0
  /\ returned[2].name = "A" /\ returned[2].result = 2


(***************************************************************************)
(* C34.  A source without a return method: return() on the mapped          *)
(* iterator resolves to {value: undefined, done: true} and calls nothing   *)
(* on the source, and when callback fails for a value next() rejects with  *)
(* callback's error and no close is attempted.                             *)
(***************************************************************************)
C34_NoReturnMethod ==
  /\ [](~iterator.hasReturn =>
          /\ iterator.returnCalls = 0
          /\ \A i \in 1..Len(ops) :
               ops[i].stage # "closing" /\ ops[i].closes = 0
          /\ settled # << >> /\ settled[1].op.kind = "return" =>
               /\ settled[1].op.out = DoneResult
               /\ settled[1].op.src = NoOutcome
               /\ settled[1].op.cbArgs = << >>
          /\ settled # << >> /\ settled[1].op.kind = "next"
               /\ settled[1].op.cb = "fail"
               /\ settled[1].op.src.tag = "value" =>
               /\ settled[1].op.out =
                    Out("rejected", CallbackError(settled[1].op.src.v))
               /\ settled[1].op.closes = 0
               /\ settled[1].op.closeSeen = NoOutcome)
  /\ [][~iterator.hasReturn /\ Len(ops') = Len(ops) + 1
          /\ ops'[Len(ops')].kind = "return" =>
          /\ iterator' = iterator
          /\ settled' = << [k |-> Len(ops'),
                            op |-> Settle(Op("return", "settled", NoOutcome),
                                          DoneResult)] >>]_vars

(* return() on a source without return method, called after a next() that  *)
(* is still pending, has resolved to the done result; the source is where  *)
(* the next() left it.                                                     *)
C34_Witness ==
  /\ ~iterator.hasReturn
  /\ Len(ops) = 2
  /\ ops[1].kind = "next" /\ ops[1].stage = "source"
  /\ settled # << >>
  /\ settled[1].k = 2
  /\ settled[1].op.kind = "return"
  /\ settled[1].op.out = DoneResult
  /\ iterator.pos = 1
  /\ ~iterator.closed

(* callback failed for the first value of a source without return method:  *)
(* next() has rejected with callback's error.                              *)
C34_WitnessCallbackFails ==
  /\ ~iterator.hasReturn
  /\ settled # << >>
  /\ settled[1].op.kind = "next"
  /\ settled[1].op.cb = "fail"
  /\ settled[1].op.src = Out("value", 1)
  /\ settled[1].op.out = Out("rejected", CallbackError(1))
  /\ iterator.returnCalls = 0


(***************************************************************************)
(* C35.  When the source's next() rejects: with a rejectCallback the       *)
(* mapped next() resolves to {value: rejectCallback(error), done: false},  *)
(* and when rejectCallback fails the abrupt close applies (the source's    *)
(* return() is invoked if there is one, then the call rejects with         *)
(* rejectCallback's error); without a rejectCallback the mapped next()     *)
(* rejects with the source's error, rejectCallback and callback are not    *)
(* invoked and the call does not invoke the source's return().             *)
(***************************************************************************)
C35_SourceRejection ==
  settled # << >> /\ settled[1].op.kind = "next"
    /\ settled[1].op.src.tag = "reject" =>
    LET op == settled[1].op IN
    /\ op.src.v = SourceError
    /\ rejectCallback /\ op.cb = "ok" =>
         /\ op.cbArgs = << SourceError >>
         /\ op.out = Out("value", RejectCallback(SourceError))
         /\ op.closes = 0
    /\ rejectCallback /\ op.cb # "ok" =>
         /\ op.cb = "fail"
         /\ op.cbArgs = << SourceError >>
         /\ op.out = Out("rejected", CallbackError(SourceError))
         /\ op.closes = IF iterator.hasReturn THEN 1 ELSE 0
         /\ iterator.hasReturn => op.closeSeen = ReturnOutcome
    /\ ~rejectCallback =>
         /\ op.cb = "none"
         /\ op.cbArgs = << >>
         /\ op.out = Out("rejected", SourceError)
         /\ op.closes = 0
         /\ op.closeSeen = NoOutcome

(* With a rejectCallback, the next() after the last value has resolved to  *)
(* rejectCallback of the source's error.                                   *)
C35_Witness ==
  /\ rejectCallback
  /\ settled # << >>
  /\ settled[1].k = 3
  /\ settled[1].op.kind = "next"
  /\ settled[1].op.src = Out("reject", SourceError)
  /\ settled[1].op.out = Out("value", RejectCallback(SourceError))
  /\ iterator.returnCalls = 0

(* Without a rejectCallback, on a source that has a return method, it has  *)
(* rejected with the source's error and return() was not invoked.          *)
C35_WitnessNoRejectCallback ==
  /\ ~rejectCallback
  /\ iterator.hasReturn
  /\ settled # << >>
  /\ settled[1].op.kind = "next"
  /\ settled[1].op.src = Out("reject", SourceError)
  /\ settled[1].op.out = Out("rejected", SourceError)
  /\ iterator.returnCalls = 0

(* rejectCallback failed: the source's return() was invoked and the call   *)
(* has rejected with rejectCallback's error.                               *)
C35_WitnessRejectCallbackFails ==
  /\ rejectCallback
  /\ iterator.hasReturn
  /\ settled # << >>
  /\ settled[1].op.kind = "next"
  /\ settled[1].op.src = Out("reject", SourceError)
  /\ settled[1].op.closes = 1
  /\ settled[1].op.out = Out("rejected", CallbackError(SourceError))
  /\ iterator.returnCalls = 1


(***************************************************************************)
(* C36.  The mapped iterator keeps no state of its own: every next() is    *)
(* forwarded to the source's next() once, when it is called, also while    *)
(* earlier calls are pending and after return(), throw() or an abrupt      *)
(* close; and the i-th next() settles with the mapping of the i-th result  *)
(* of the source's next(), in whatever order the calls settle.             *)
(***************************************************************************)
NextCalls == {i \in 1..Len(ops) : ops[i].kind = "next"}

(* Call i is the Rank(i)-th next() on the mapped iterator.                 *)
Rank(i) == Cardinality({j \in NextCalls : j <= i})

C36_NextForwardedStateless ==
  /\ [](/\ Len(iterator.nexts) = Cardinality(NextCalls)
        /\ \A i \in NextCalls \cap Unsettled :
             ops[i].src = iterator.nexts[Rank(i)]
        /\ settled # << >> /\ settled[1].op.kind = "next" =>
             /\ settled[1].op.src = iterator.nexts[Rank(settled[1].k)]
             /\ MappedLikeNext(settled[1].op))
  /\ [][IF Len(ops') = Len(ops) + 1 /\ ops'[Len(ops')].kind = "next"
        THEN /\ Len(iterator'.nexts) = Len(iterator.nexts) + 1
             /\ ops'[Len(ops')].stage = "source"
             /\ ops'[Len(ops')].src = Last(iterator'.nexts)
             /\ SubSeq(iterator'.nexts, 1, Len(iterator.nexts))
                  = iterator.nexts
        ELSE iterator'.nexts = iterator.nexts]_vars

(* The second next() has settled before the first, with the mapping of     *)
(* the source's second result.                                             *)
C36_Witness ==
  /\ Len(ops) = 2
  /\ ops[1].kind = "next" /\ ops[1].stage = "callback"
  /\ settled # << >>
  /\ settled[1].k = 2
  /\ settled[1].op.kind = "next"
  /\ settled[1].op.src = Out("value", 2)
  /\ settled[1].op.out = Out("value", Callback(2))
  /\ iterator.nexts = << Out("value", 1), Out("value", 2) >>

(* A next() called after return() was forwarded to the source, which       *)
(* answered with a done result.                                            *)
C36_WitnessAfterReturn ==
  /\ iterator.hasReturn
  /\ Len(ops) = 3
  /\ ops[1].kind = "next"
  /\ ops[2].kind = "return"
  /\ ops[3].kind = "next"
  /\ iterator.nexts = << Out("value", 1), DoneResult >>
  /\ settled # << >>
  /\ settled[1].k = 3
  /\ settled[1].op.out = DoneResult

(* A next() called after an abrupt close was forwarded to the source.      *)
C36_WitnessAfterAbruptClose ==
  /\ Len(ops) = 2
  /\ ops[1].kind = "next" /\ ops[1].closes = 1 /\ ops[1].stage = "settled"
  /\ ops[2].kind = "next" /\ ops[2].stage = "source"
  /\ Len(iterator.nexts) = 2

(* A next() called after throw() on a source without return method, which *)
(* is therefore still open, was forwarded and has yielded the next value.  *)
C36_WitnessAfterThrow ==
  /\ ~iterator.hasThrow /\ ~iterator.hasReturn
  /\ Len(ops) = 2
  /\ ops[1].kind = "throw"
  /\ ops[2].kind = "next"
  /\ settled # << >>
  /\ settled[1].k = 2
  /\ settled[1].op.out = Out("value", Callback(1))


(***************************************************************************)
(* What serialize returns, parsed again.                                   *)
(***************************************************************************)

(* serialize accepted the input and parseValue of the same type was called *)
(* with what it returned.                                                  *)
SerializedThenParsed ==
  /\ Len(returned) = 2
  /\ returned[1].fn = "serialize"
  /\ returned[2].fn = "parseValue"

(***************************************************************************)
(* C37.  For Int, String, Boolean and ID and every value x that serialize  *)
(* accepts, parseValue accepts serialize(x) and returns it unchanged:      *)
(* parseValue(serialize(x)) = serialize(x).                                *)
(***************************************************************************)
C37_ParseValueOfSerialized ==
  SerializedThenParsed =>
    /\ returned[2].type = returned[1].type
    /\ returned[2].arg = returned[1].outcome.value
    /\ returned[2].outcome = Returns(returned[1].outcome.value)

(* Int: the numeral "007" is serialized as the number 7, which parseValue  *)
(* returns.                                                                *)
C37_Witness ==
  /\ SerializedThenParsed
  /\ returned[1].type = "Int"
  /\ input = JSString(<< "0", "0", "7" >>)
  /\ returned[1].outcome = Returns(JSNumber(Small(7)))
  /\ returned[2].outcome = Returns(JSNumber(Small(7)))

(* ID: the number -1 is serialized as the string "-1", which parseValue    *)
(* returns.                                                                *)
C37_WitnessID ==
  /\ SerializedThenParsed
  /\ returned[1].type = "ID"
  /\ input = JSNumber(Small(-1))
  /\ returned[2].outcome = Returns(JSString(<< "-", "1" >>))

(* Boolean: the number 7 is serialized as true, which parseValue returns.  *)
C37_WitnessBoolean ==
  /\ SerializedThenParsed
  /\ returned[1].type = "Boolean"
  /\ input = JSNumber(Small(7))
  /\ returned[2].outcome = Returns(JSBoolean(TRUE))

(* String: an object is serialized as the string of the primitive it       *)
(* stands for, which parseValue returns.                                   *)
C37_WitnessStringOfObject ==
  /\ SerializedThenParsed
  /\ returned[1].type = "String"
  /\ isObjectLike(input)
  /\ typeof(returned[1].outcome.value) = "string"
  /\ returned[2].outcome = returned[1].outcome


(***************************************************************************)
(* The usages asked for in the course of a validation walk.  The walk of   *)
(* the rules goes through the document of the context with the TypeInfo    *)
(* the context was constructed with: open holds the nodes it has entered   *)
(* and not left.  At any node a rule may call getVariableUsages or         *)
(* getRecursiveVariableUsages; returned holds the last call made at the    *)
(* node where the walk is.                                                 *)
(***************************************************************************)

(* The nodes the walk may enter next: the children, in the document, of    *)
(* the innermost open node.  A selection set is a child of the node        *)
(* entered before it, and its children are that node's selections.         *)
WalkChildren(ast, path) ==
  IF path = << >> THEN Range(ast.definitions)
  ELSE LET node == Last(path)
       IN CASE node.kind \in {"OperationDefinition", "FragmentDefinition"} ->
                 Range(node.variableDefinitions) \cup {SelectionSetNode}
            [] node.kind = "VariableDefinition" -> {node.variable}
            [] node.kind = "SelectionSet" ->
                 LET owner == path[Len(path) - 1]
                 IN IF owner.kind \in {"OperationDefinition",
                                       "FragmentDefinition"}
                    THEN Range(owner.selectionSet)
                    ELSE Range(owner.selectionSet[1])
            [] node.kind \in {"Field", "InlineFragment"} ->
                 Range(node.arguments)
                   \cup (IF node.selectionSet = << >> THEN {}
                         ELSE {SelectionSetNode})
            [] node.kind = "Argument" -> {node.value}
            [] OTHER -> {}

(* What the seven getters of the context return.                           *)
ContextGetters(ti) ==
  [getType |-> getType(ti),
   getParentType |-> getParentType(ti),
   getInputType |-> getInputType(ti),
   getFieldDef |-> getFieldDef(ti),
   getDirective |-> ti.directive,
   getArgument |-> ti.argument,
   getEnumValue |-> ti.enumValue]

InitWalk ==
  /\ typeInfo = NewTypeInfo(Undefined)
  /\ open = << >>
  /\ left = << >>
  /\ IdleVisit
  /\ IdleMap
  /\ input = << >>
  /\ returned = << >>
  /\ cache0 = << >>
  /\ invoked = << >>
  /\ IdleLoops
  /\ IdleExec
  /\ \E ast \in FlatDocuments :
       context = NewValidationContext(WithVariables(ast))
  /\ served = FALSE
  /\ errors = << >>
  /\ position = 0

(* The walk enters a child of the innermost open node.                     *)
EnterWalk ==
  \E node \in WalkChildren(context.ast, open) :
    /\ typeInfo' = enter(typeInfo, node)
    /\ open' = Append(open, node)
    /\ returned' = << >>
    /\ UNCHANGED << left, visitVars, mapVars, ctxVars, input, cache0, invoked,
               execVars, loopVars >>

(* The walk leaves the innermost open node.                                *)
LeaveWalk ==
  /\ open # << >>
  /\ typeInfo' = leave(typeInfo, Last(open))
  /\ open' = Front(open)
  /\ returned' = << >>
  /\ UNCHANGED << left, visitVars, mapVars, ctxVars, input, cache0, invoked,
             execVars, loopVars >>

(* A call on the context made by a rule where the walk is.                 *)
ServeInWalk(fn, key, call) ==
  /\ context' = call.ctx
  /\ typeInfo' = call.typeInfo
  /\ served' = (context'.walks = context.walks)
  /\ returned' = << [fn |-> fn, key |-> key, result |-> call.result] >>
  /\ UNCHANGED << open, left, visitVars, mapVars, errors, position, input,
             cache0, invoked, execVars, loopVars >>

CallGetVariableUsagesInWalk ==
  \E node \in 1..Len(context.ast.definitions) :
    \E call \in {getVariableUsagesOfContext(context, typeInfo, node)} :
      ServeInWalk("getVariableUsages", node, call)

CallGetRecursiveVariableUsagesInWalk ==
  \E operation \in OperationNodes(context.ast) :
    \E call \in {getRecursiveVariableUsagesOfContext(context, typeInfo,
                                                     operation)} :
      ServeInWalk("getRecursiveVariableUsages", operation, call)

NextWalk ==
  \/ EnterWalk
  \/ LeaveWalk
  \/ CallGetVariableUsagesInWalk
  \/ CallGetRecursiveVariableUsagesInWalk

SpecWalk == InitWalk /\ [][NextWalk]_vars

(***************************************************************************)
(* C38.  getVariableUsages and getRecursiveVariableUsages walk with a      *)
(* TypeInfo of their own: a call of either, made at any node of the        *)
(* validation walk and whether it computes or answers from the cache,      *)
(* leaves what getType, getParentType, getInputType, getFieldDef,          *)
(* getDirective, getArgument and getEnumValue of the context return as it  *)
(* was.                                                                    *)
(***************************************************************************)
C38_UsagesLeaveContextTypeInfo ==
  [][Len(open') = Len(open) =>
       ContextGetters(typeInfo') = ContextGetters(typeInfo)]_vars

(* getVariableUsages has walked a definition, with the argument of a field *)
(* in it, while the validation walk is inside an argument: the context     *)
(* still has that argument.                                                *)
C38_Witness ==
  /\ returned # << >>
  /\ returned[1].fn = "getVariableUsages"
  /\ ~served
  /\ returned[1].result # << >>
  /\ Len(open) > 0
  /\ Last(open).kind = "Argument"
  /\ typeInfo.argument # << >>
  /\ getInputType(typeInfo) = << "NonNull", "ID" >>

(* getRecursiveVariableUsages has computed the usages of the operation and *)
(* of a fragment while the validation walk is at a variable.               *)
C38_WitnessRecursive ==
  /\ returned # << >>
  /\ returned[1].fn = "getRecursiveVariableUsages"
  /\ ~served
  /\ Len(returned[1].result) > 1
  /\ Len(open) > 0
  /\ Last(open).kind = "Variable"
  /\ typeInfo.argument # << >>

====
